---- MODULE Spec2Model ----
(***************************************************************************)
(* A model of essentials-of-microeconomics: the presentation formatter     *)
(* (util.py), the input-parsing calculators, and the reactive calculator   *)
(* graphs of the topic pages (trade_and_ppf.py, taxes_and_subsidies.py,    *)
(* monopoly.py, module.py).                                                *)
(*                                                                         *)
(* Numbers are exact rationals <<n, d>> (d > 0, lowest terms), as sympy    *)
(* keeps them.  A symbolic value is a record [k, a, b, c, p]:                 *)
(*   k = "num"   the rational a                                            *)
(*   k = "float" the binary float of value a printed with p digits         *)
(*   k = "sym"   a bare symbol                                             *)
(*   k = "lin"   the expression a + b*Q + c*P                              *)
(*   k = "eq"    the equation Eq(lhs, rhs) with lhs - rhs = a + b*Q + c*P  *)
(*   k = "none"  no value                                                  *)
(***************************************************************************)
EXTENDS Integers, Sequences, FiniteSets, TLC

VARIABLES
    la_in,      \* latex_approx: the arguments [expr, perc, approx]
    la_out,     \* latex_approx: the returned string ("" before the call)
    la_pc       \* latex_approx: "ready", "returned" or "assert"

VARIABLES
    ps_calc,    \* calculator call: the calculator called
    ps_text,    \* calculator call: the text of its input field
    ps_res,     \* calculator call: how the call ended
    ps_pc       \* calculator call: "ready" or "done"

VARIABLES
    page,       \* session: the page whose server function runs
    inp,        \* session: the current value of every input
    cache,      \* session: what each reactive.Calc last returned or raised
    deps,       \* session: what each calculator and output read when it last ran
    out,        \* session: what each output shows
    ran,        \* session: the calculators and outputs run by the last flush
    edits,      \* session: the number of edits the user made
    last,       \* session: the input the user set last
    msgs        \* session: the input updates sent to the browser, not yet applied

la_vars == <<la_in, la_out, la_pc>>
ps_vars == <<ps_calc, ps_text, ps_res, ps_pc>>
pg_vars == <<page, inp, cache, deps, out, ran, edits, last, msgs>>
vars == <<la_in, la_out, la_pc, ps_calc, ps_text, ps_res, ps_pc,
          page, inp, cache, deps, out, ran, edits, last, msgs>>

\* the parts of the state a specification does not use
LatexIdle == la_in = "" /\ la_out = "" /\ la_pc = "idle"
CallIdle == ps_calc = "" /\ ps_text = <<>> /\ ps_res = "" /\ ps_pc = "idle"
PageIdle ==
    /\ page = "" /\ inp = <<>> /\ cache = <<>>
    /\ deps = <<>> /\ out = <<>> /\ ran = {} /\ edits = 0 /\ last = ""
    /\ msgs = <<>>

----------------------------------------------------------------------------
(* Bounds of the model *)

MaxNum == 3     \* numerators of the rationals handed to latex_approx
MaxDen == 3     \* denominators of the rationals handed to latex_approx
MaxPerc == 3    \* largest display precision tried (the slider goes to 100)
MaxEdits == 3   \* edits of the inputs in one session
MaxResets == 2  \* presses of the reset button in one session
MaxPayoffEdits == 2 \* edits of the payoff table in one session

----------------------------------------------------------------------------
(* Exact rational arithmetic *)

Abs(x) == IF x < 0 THEN -x ELSE x

RECURSIVE GCD(_, _)
GCD(x, y) == IF y = 0 THEN x ELSE GCD(y, x % y)

Rat(n, d) ==
    LET g == GCD(Abs(n), Abs(d))
        s == IF d < 0 THEN -1 ELSE 1
    IN  <<(s * n) \div g, (s * d) \div g>>

RInt(n) == <<n, 1>>
RZero == RInt(0)
RAdd(x, y) == Rat(x[1] * y[2] + y[1] * x[2], x[2] * y[2])
RNeg(x) == <<-x[1], x[2]>>
RSub(x, y) == RAdd(x, RNeg(y))
RMul(x, y) == Rat(x[1] * y[1], x[2] * y[2])
RDiv(x, y) == Rat(x[1] * y[2], x[2] * y[1])
RLt(x, y) == x[1] * y[2] < y[1] * x[2]
RLe(x, y) == x[1] * y[2] <= y[1] * x[2]
RIsInt(x) == x[2] = 1

\* F applied to the value v, v evaluated once
Let(v, F(_)) == CHOOSE y \in {F(x) : x \in {v}} : TRUE

RECURSIVE Pow(_, _)
Pow(b, e) == IF e = 0 THEN 1 ELSE b * Pow(b, e - 1)

----------------------------------------------------------------------------
(* Symbolic values *)

Val(k, a, b, c, p) == [k |-> k, a |-> a, b |-> b, c |-> c, d |-> <<0, 1>>, p |-> p]
Num(r) == Val("num", r, RZero, RZero, 0)
Float(r, dps) == Val("float", r, RZero, RZero, dps)
Sym == Val("sym", RZero, RZero, RZero, 0)
NoVal == Val("none", RZero, RZero, RZero, 0)
\* a + b*Q + c*P, a number when it has no symbol
Lin(a, b, c) == IF b = RZero /\ c = RZero THEN Num(a) ELSE Val("lin", a, b, c, 0)
Eq(a, b, c) == Val("eq", a, b, c, 0)
\* a + b*Q + c*P + d*Q^2
Quad(k, a, b, c, d) ==
    IF k = "lin" /\ d = RZero THEN Lin(a, b, c) ELSE [Val(k, a, b, c, 0) EXCEPT !.d = d]

----------------------------------------------------------------------------
(* sympy's N and latex, as util.latex_approx uses them *)

Max(x, y) == IF x > y THEN x ELSE y

\* mpmath's dps_to_prec: round((n + 1) * 3.3219280948873626), at least 1
dps_to_prec(n) == Max(1, ((n + 1) * 33219 + 5000) \div 10000)

\* mpmath's prec_to_dps: round(prec / 3.3219280948873626 - 1), at least 1
prec_to_dps(prec) == Max(1, (20000 * prec - 33219) \div 66438)

\* n / d rounded to the nearest integer, ties to even (n >= 0, d > 0)
RoundHalfEven(n, d) ==
    LET q == n \div d
        r == n % d
    IN  IF 2 * r > d THEN q + 1
        ELSE IF 2 * r = d THEN q + (q % 2)
        ELSE q

\* the least e >= 0 with r * 2^e >= 2^(prec - 1), for 0 < r < 2^(prec - 1)
RECURSIVE BinExp(_, _, _)
BinExp(r, prec, e) ==
    IF r[1] * Pow(2, e) >= r[2] * Pow(2, prec - 1) THEN e
    ELSE BinExp(r, prec, e + 1)

\* the binary float of prec mantissa bits nearest to the rational r > 0
RoundBits(r, prec) ==
    LET e == BinExp(r, prec, 0)
    IN  Rat(RoundHalfEven(r[1] * Pow(2, e), r[2]), Pow(2, e))

\* the number of bits of n > 0 once its trailing zero bits are dropped
RECURSIVE OddBits(_)
OddBits(n) ==
    IF n % 2 = 0 THEN OddBits(n \div 2)
    ELSE IF n = 1 THEN 1
    ELSE OddBits(n \div 2) + 1

\* d is a power of two
RECURSIVE IsPow2(_)
IsPow2(d) == d = 1 \/ (d % 2 = 0 /\ IsPow2(d \div 2))

\* r > 0 is a binary float of at most prec mantissa bits already
Representable(r, prec) == IsPow2(r[2]) /\ OddBits(r[1]) <= prec

\* N(expr, perc): a symbol evaluates to itself and an exact zero to the
\* exact zero; any other number becomes a Float of dps_to_prec(perc) bits,
\* which is the number itself when it has no more bits than that.
N(expr, perc) ==
    IF expr.k = "sym" THEN expr
    ELSE IF expr.a = RZero THEN Num(RZero)
    ELSE LET prec == dps_to_prec(perc)
             abs == <<Abs(expr.a[1]), expr.a[2]>>
             mag == IF Representable(abs, prec) THEN abs ELSE RoundBits(abs, prec)
         IN  Float(IF expr.a[1] < 0 THEN RNeg(mag) ELSE mag, prec_to_dps(prec))

\* evalf == expr: structural equality, a Float and a Rational being equal
\* when their values are (Float.__eq__ compares a Rational exactly).
SympyEq(x, y) ==
    IF x.k \in {"num", "float"} /\ y.k \in {"num", "float"} THEN x.a = y.a
    ELSE x = y

\* the decimal exponent e of r > 0: 10^e <= r < 10^(e + 1)
RECURSIVE Exp10(_)
Exp10(r) ==
    IF RLe(RInt(10), r) THEN Exp10(RDiv(r, RInt(10))) + 1
    ELSE IF RLt(r, RInt(1)) THEN Exp10(RMul(r, RInt(10))) - 1
    ELSE 0

\* the k decimal digits of D, leading zeros kept
RECURSIVE DigStr(_, _)
DigStr(D, k) == IF k = 0 THEN "" ELSE DigStr(D \div 10, k - 1) \o ToString(D % 10)

RECURSIVE Zeros(_)
Zeros(k) == IF k <= 0 THEN "" ELSE "0" \o Zeros(k - 1)

\* trailing zeros of the k-digit number D stripped, one digit kept
RECURSIVE Strip(_, _)
Strip(D, k) == IF k > 1 /\ D % 10 = 0 THEN Strip(D \div 10, k - 1) ELSE <<D, k>>

\* mpmath's to_str(r, dps, strip_zeros=True) in fixed notation, r > 0
FloatStr(r, dps) ==
    LET e0 == Exp10(r)
        sh0 == dps - 1 - e0
        D0 == IF sh0 >= 0 THEN RoundHalfEven(r[1] * Pow(10, sh0), r[2])
              ELSE RoundHalfEven(r[1], r[2] * Pow(10, -sh0))
        carry == D0 = Pow(10, dps)
        e == IF carry THEN e0 + 1 ELSE e0
        sd == Strip(IF carry THEN Pow(10, dps - 1) ELSE D0, dps)
        D == sd[1]
        k == sd[2]
    IN  IF e < 0 THEN "0." \o Zeros(-e - 1) \o DigStr(D, k)
        ELSE IF k <= e + 1 THEN ToString(D * Pow(10, e + 1 - k)) \o ".0"
        ELSE ToString(D \div Pow(10, k - e - 1)) \o "."
             \o DigStr(D % Pow(10, k - e - 1), k - e - 1)

\* latex(expr)
latex(expr) ==
    LET n == expr.a[1]
        d == expr.a[2]
    IN  CASE expr.k = "sym" -> "x"
          [] expr.k = "num" /\ d = 1 -> ToString(n)
          [] expr.k = "num" /\ d # 1 /\ n > 0 ->
                "\\frac{" \o ToString(n) \o "}{" \o ToString(d) \o "}"
          [] expr.k = "num" /\ d # 1 /\ n < 0 ->
                "- \\frac{" \o ToString(-n) \o "}{" \o ToString(d) \o "}"
          [] expr.k = "float" /\ n > 0 -> FloatStr(expr.a, expr.p)
          [] expr.k = "float" /\ n < 0 -> "-" \o FloatStr(RNeg(expr.a), expr.p)
          [] OTHER -> "0"

----------------------------------------------------------------------------
(* parse_expr_safer.  A text is a sequence of tokens: numbers, the symbols *)
(* P, Q and x, and the signs = + - * / and (.                              *)

Tok(k) == [k |-> k, n |-> 0]
NumTok(n) == [k |-> "num", n |-> n]

\* a form a + b*Q + c*P + d*Q^2; x: it contains another symbol or power
LF(a, b, c, x) == [a |-> a, b |-> b, c |-> c, d |-> RZero, x |-> x]
LFZero == LF(RZero, RZero, RZero, FALSE)
LFAdd(f, g) ==
    [LF(RAdd(f.a, g.a), RAdd(f.b, g.b), RAdd(f.c, g.c), f.x \/ g.x)
        EXCEPT !.d = RAdd(f.d, g.d)]
LFScale(f, r) ==
    [LF(RMul(f.a, r), RMul(f.b, r), RMul(f.c, r), f.x) EXCEPT !.d = RMul(f.d, r)]
\* f ^ n (convert_xor): the square of Q is kept
LFPower(f, n) ==
    IF n = 1 THEN f
    ELSE IF n = 2 /\ f = LF(RZero, RInt(1), RZero, FALSE)
    THEN [LFZero EXCEPT !.d = RInt(1)]
    ELSE [LFZero EXCEPT !.x = TRUE]
LFSub(f, g) == LFAdd(f, LFScale(g, RInt(-1)))

IsAtom(t) == t.k \in {"num", "P", "Q", "x"}

\* the symbols of local_dict keep their names; any other name is a new Symbol
AtomLF(t, locals) ==
    CASE t.k = "num" -> LF(RInt(t.n), RZero, RZero, FALSE)
      [] t.k = "Q" /\ "Q" \in locals -> LF(RZero, RInt(1), RZero, FALSE)
      [] t.k = "P" /\ "P" \in locals -> LF(RZero, RZero, RInt(1), FALSE)
      [] OTHER -> LF(RZero, RZero, RZero, TRUE)

ParseFail == [ok |-> FALSE, lf |-> LFZero, next |-> 0]

\* the shape of the term at position i: atom ^ n / m, atom ^ n, n * atom,
\* atom / n, n atom (implicit multiplication, under transformations="all")
\* or an atom: where its atom is, its power, its factor and where it ends
Shape(at, pow, num, den, next) ==
    [at |-> at, pow |-> pow, num |-> num, den |-> den, next |-> next]

TermShape(toks, i, all) ==
    IF /\ i + 4 <= Len(toks) /\ toks[i + 1].k = "^" /\ toks[i + 2].k = "num"
       /\ toks[i + 3].k = "/" /\ toks[i + 4].k = "num" /\ toks[i + 4].n # 0
    THEN Shape(i, toks[i + 2].n, 1, toks[i + 4].n, i + 5)
    ELSE IF /\ i + 2 <= Len(toks) /\ toks[i + 1].k = "^" /\ toks[i + 2].k = "num"
    THEN Shape(i, toks[i + 2].n, 1, 1, i + 3)
    ELSE IF /\ i + 2 <= Len(toks) /\ toks[i].k = "num"
            /\ toks[i + 1].k = "*" /\ IsAtom(toks[i + 2])
    THEN Shape(i + 2, 1, toks[i].n, 1, i + 3)
    ELSE IF /\ i + 2 <= Len(toks) /\ toks[i + 1].k = "/"
            /\ toks[i + 2].k = "num" /\ toks[i + 2].n # 0
    THEN Shape(i, 1, 1, toks[i + 2].n, i + 3)
    ELSE IF /\ all /\ i + 1 <= Len(toks) /\ toks[i].k = "num"
            /\ toks[i + 1].k \in {"P", "Q", "x"}
    THEN Shape(i + 1, 1, toks[i].n, 1, i + 2)
    ELSE Shape(i, 1, 1, 1, i + 1)

\* one term from position i
ParseTerm(toks, i, locals, all) ==
    IF i > Len(toks) \/ ~IsAtom(toks[i]) THEN ParseFail
    ELSE Let(TermShape(toks, i, all), LAMBDA s :
             [ok |-> TRUE, next |-> s.next,
              lf |-> LFScale(LFPower(AtomLF(toks[s.at], locals), s.pow),
                             Rat(s.num, s.den))])

\* the terms from position i on, joined by + and -, added to acc
RECURSIVE ParseTerms(_, _, _, _, _, _)
ParseTerms(toks, i, acc, sign, locals, all) ==
    Let(ParseTerm(toks, i, locals, all), LAMBDA t :
        IF ~t.ok THEN ParseFail
        ELSE Let(LFAdd(acc, LFScale(t.lf, RInt(sign))), LAMBDA sum :
            IF t.next > Len(toks) THEN [ok |-> TRUE, lf |-> sum, next |-> t.next]
            ELSE IF toks[t.next].k = "+"
            THEN ParseTerms(toks, t.next + 1, sum, 1, locals, all)
            ELSE IF toks[t.next].k = "-"
            THEN ParseTerms(toks, t.next + 1, sum, -1, locals, all)
            ELSE ParseFail))

\* an expression: an optional leading minus, then terms
ParseSide(toks, locals, all) ==
    IF toks = <<>> THEN ParseFail
    ELSE Let(toks[1].k = "-", LAMBDA minus :
             ParseTerms(toks, IF minus THEN 2 ELSE 1, LFZero,
                        IF minus THEN -1 ELSE 1, locals, all))

\* the sides of an equation, each parsed
ParseSides(sides, locals, all) ==
    <<>> \o [k \in DOMAIN sides |-> ParseSide(sides[k], locals, all)]

Positions(toks, k) == {i \in 1..Len(toks) : toks[i].k = k}

Raise(exc) == [tag |-> "error", exc |-> exc, val |-> NoVal]
Ok(v) == [tag |-> "ok", exc |-> "", val |-> v]

\* the value of a linear form; one with another symbol keeps only its P part
LFValue(f) ==
    IF f.x THEN Val("sym", RZero, RZero, f.c, 0) ELSE Quad("lin", f.a, f.b, f.c, f.d)

\* parse_expr_safer(text, local_dict, transformations): the tokenizer raises
\* TokenError on an unclosed bracket; a text that is no expression (or, under
\* transformations="all", no equation of two expressions) raises SyntaxError.
parse_expr_safer(toks, locals, all) ==
    LET eqs == Positions(toks, "=")
    IN  IF Positions(toks, "(") # {} THEN Raise("TokenError")
        ELSE IF eqs # {} /\ ~(all /\ Cardinality(eqs) = 1) THEN Raise("SyntaxError")
        ELSE Let(IF eqs = {} THEN <<toks>>
                 ELSE Let(CHOOSE i \in eqs : TRUE, LAMBDA at :
                          <<SubSeq(toks, 1, at - 1), SubSeq(toks, at + 1, Len(toks))>>),
                 LAMBDA sides :
             Let(ParseSides(sides, locals, all), LAMBDA e :
                 IF \E k \in DOMAIN e : ~e[k].ok THEN Raise("SyntaxError")
                 ELSE Let(IF Len(e) = 1 THEN e[1].lf ELSE LFSub(e[1].lf, e[2].lf),
                          LAMBDA d :
                          IF Len(e) = 1 \/ d.x THEN Ok(LFValue(d))
                          ELSE Ok(Quad("eq", d.a, d.b, d.c, d.d)))))

----------------------------------------------------------------------------
(* util.py *)

Approx == {"Hide", "Replace", "Append"}

AssertionError == "AssertionError"

\* latex_approx without the evalf == expr test
latex_approx_always(expr, perc, approx) ==
    IF approx = "Hide" THEN latex(expr)
    ELSE IF approx = "Replace" THEN latex(N(expr, perc))
    ELSE IF approx = "Append" THEN latex(expr) \o "\\approx " \o latex(N(expr, perc))
    ELSE AssertionError

latex_approx(expr, perc, approx) ==
    IF approx = "Hide" THEN latex(expr)
    ELSE LET evalf == N(expr, perc)
         IN  IF SympyEq(evalf, expr) THEN latex(expr)
             ELSE IF approx = "Replace" THEN latex(evalf)
             ELSE IF approx = "Append" THEN latex(expr) \o "\\approx " \o latex(evalf)
             ELSE AssertionError

LatexExprs ==
    {Sym} \cup {Num(Rat(n, d)) : n \in 0..MaxNum, d \in 1..MaxDen}

LatexInit ==
    /\ la_in \in [expr : LatexExprs, perc : 1..MaxPerc, approx : Approx]
    /\ la_out = ""
    /\ la_pc = "ready"
    /\ CallIdle /\ PageIdle

\* one call of latex_approx with the drawn arguments
LatexCall ==
    /\ la_pc = "ready"
    /\ la_out' = latex_approx(la_in.expr, la_in.perc, la_in.approx)
    /\ la_pc' = IF la_out' = AssertionError THEN "assert" ELSE "returned"
    /\ UNCHANGED <<la_in, ps_vars, pg_vars>>

LatexNext == LatexCall

SpecLatex == LatexInit /\ [][LatexNext]_vars

----------------------------------------------------------------------------
(* C1 *)

\* C1 as stated: Hide returns the typeset exact expression, Replace only the
\* typeset numeric evaluation, Append the exact expression, "\approx " and
\* the numeric evaluation; the final assert is never reached.
C1_AsStated ==
    la_pc \in {"returned", "assert"} =>
        /\ la_pc = "returned"
        /\ la_in.approx = "Hide" => la_out = latex(la_in.expr)
        /\ la_in.approx = "Replace" => la_out = latex(N(la_in.expr, la_in.perc))
        /\ la_in.approx = "Append" =>
              la_out = latex(la_in.expr) \o "\\approx "
                          \o latex(N(la_in.expr, la_in.perc))

\* C1 amended: latex_approx returns the typeset exact expression under Hide
\* and whenever the numeric evaluation compares equal to the expression;
\* otherwise Replace returns only the typeset numeric evaluation and Append
\* the exact expression, "\approx " and the numeric evaluation; the final
\* assert is never reached.
C1_LatexApproxModes ==
    la_pc \in {"returned", "assert"} =>
        LET evalf == N(la_in.expr, la_in.perc)
            same == SympyEq(evalf, la_in.expr)
        IN  /\ la_pc = "returned"
            /\ (la_in.approx = "Hide" \/ same) => la_out = latex(la_in.expr)
            /\ (la_in.approx = "Replace" /\ ~same) => la_out = latex(evalf)
            /\ (la_in.approx = "Append" /\ ~same) =>
                  la_out = latex(la_in.expr) \o "\\approx " \o latex(evalf)

\* an Append call on a bare symbol, whose numeric evaluation is the symbol
\* itself, returned the typeset symbol alone
C1_Witness ==
    /\ la_pc = "returned"
    /\ la_in.approx = "Append"
    /\ la_in.expr = Sym
    /\ la_out = "x"

----------------------------------------------------------------------------
(* shiny's req and sympy's solve, as the calculators use them *)

\* req(False, cancel_output=True) raises SilentCancelOutputException
CancelOutput == [tag |-> "cancel", exc |-> "", val |-> NoVal]
\* req(False) raises SilentException
Silent == [tag |-> "silent", exc |-> "", val |-> NoVal]

IsOk(r) == r.tag = "ok"

\* a + b*Q + d*Q^2 is known not to be positive for the positive symbol Q
NotPositive(a, b, d) == RLe(a, RZero) /\ RLe(b, RZero) /\ RLe(d, RZero)

\* solve(eq, symbol_P): the list of solutions for P of
\* a + b*Q + c*P + d*Q^2 = 0, those that contradict P > 0 dropped
solve_P(v) ==
    IF v.c = RZero THEN <<>>
    ELSE IF v.k = "sym" THEN <<Sym>>
    ELSE LET a == RNeg(RDiv(v.a, v.c))
             b == RNeg(RDiv(v.b, v.c))
             d == RNeg(RDiv(v.d, v.c))
         IN  IF NotPositive(a, b, d) THEN <<>> ELSE <<Quad("lin", a, b, RZero, d)>>

----------------------------------------------------------------------------
(* The input-parsing calculators *)

\* trade_and_ppf.sanitize(name): value > 0 on a value with a symbol is a
\* Relational, whose truth value req cannot take (TypeError)
sanitize(text) ==
    Let(parse_expr_safer(text, {}, FALSE), LAMBDA r :
        IF ~IsOk(r) THEN (IF r.exc = "SyntaxError" THEN CancelOutput ELSE r)
        ELSE IF r.val.k # "num" THEN Raise("TypeError")
        ELSE IF RLt(RZero, r.val.a) THEN r
        ELSE CancelOutput)

\* module.demand_supply_server: demand and supply
demand(text) == parse_expr_safer(text, {"P", "Q"}, TRUE)
supply(text) == parse_expr_safer(text, {"P", "Q"}, TRUE)

\* production_and_costs_server: q_L and TC
q_L(text) == parse_expr_safer(text, {"L"}, TRUE)
TC(text) == parse_expr_safer(text, {"q"}, TRUE)

\* taxes_and_subsidies_server: consumer_tax and producer_tax
consumer_tax(text) == parse_expr_safer(text, {}, TRUE)
producer_tax(text) == parse_expr_safer(text, {}, TRUE)

\* except SyntaxError: req(False, cancel_output=True)
CancelOnSyntaxError(res) ==
    Let(res, LAMBDA r : IF ~IsOk(r) /\ r.exc = "SyntaxError" THEN CancelOutput ELSE r)

\* externalities_server: MEB and MEC
MEB(text) == CancelOnSyntaxError(parse_expr_safer(text, {"Q"}, TRUE))
MEC(text) == CancelOnSyntaxError(parse_expr_safer(text, {"Q"}, TRUE))

\* monopoly_server: demand
monopoly_demand(text) ==
    Let(CancelOnSyntaxError(parse_expr_safer(text, {"P", "Q"}, TRUE)), LAMBDA r :
        IF ~IsOk(r) THEN r
        ELSE Let(solve_P(r.val), LAMBDA solutions :
                 IF Len(solutions) = 1 THEN Ok(solutions[1]) ELSE CancelOutput))

\* monopoly_server: total_cost
total_cost(text) == CancelOnSyntaxError(parse_expr_safer(text, {"Q"}, TRUE))

Calculators ==
    {"sanitize", "demand", "supply", "q_L", "TC", "consumer_tax",
     "producer_tax", "MEB", "MEC", "monopoly_demand", "total_cost"}

\* the texts typed into an input field
CallTexts ==
    { <<NumTok(8)>>, <<NumTok(0)>>, <<Tok("-"), NumTok(2)>>, <<Tok("x")>>,
      <<NumTok(8), Tok("+")>>, <<Tok("("), NumTok(8)>>, <<>>,
      <<NumTok(2), Tok("*"), Tok("Q")>>,
      <<Tok("Q"), Tok("="), NumTok(50), Tok("-"), Tok("P"), Tok("/"), NumTok(2)>>,
      <<Tok("Q"), Tok("="), NumTok(5)>>,
      <<Tok("Q"), Tok("="), NumTok(50), Tok("-")>> }

CallInit ==
    /\ ps_calc \in Calculators
    /\ ps_text \in CallTexts
    /\ ps_res = ""
    /\ ps_pc = "ready"
    /\ LatexIdle /\ PageIdle

Returns(calc, res) ==
    /\ ps_pc = "ready"
    /\ ps_calc = calc
    /\ ps_res' = res
    /\ ps_pc' = "done"
    /\ UNCHANGED <<ps_calc, ps_text, la_vars, pg_vars>>

CallSanitize == Returns("sanitize", sanitize(ps_text))
CallDemand == Returns("demand", demand(ps_text))
CallSupply == Returns("supply", supply(ps_text))
CallQL == Returns("q_L", q_L(ps_text))
CallTC == Returns("TC", TC(ps_text))
CallConsumerTax == Returns("consumer_tax", consumer_tax(ps_text))
CallProducerTax == Returns("producer_tax", producer_tax(ps_text))
CallMEB == Returns("MEB", MEB(ps_text))
CallMEC == Returns("MEC", MEC(ps_text))
CallMonopolyDemand == Returns("monopoly_demand", monopoly_demand(ps_text))
CallTotalCost == Returns("total_cost", total_cost(ps_text))

CallNext ==
    \/ CallSanitize \/ CallDemand \/ CallSupply \/ CallQL \/ CallTC
    \/ CallConsumerTax \/ CallProducerTax \/ CallMEB \/ CallMEC
    \/ CallMonopolyDemand \/ CallTotalCost

SpecCalls == CallInit /\ [][CallNext]_vars

----------------------------------------------------------------------------
(* C2 *)

\* C2: for every input text, every input-parsing calculator either yields a
\* value or cancels its outputs; no error escapes unhandled.
C2_NoUnhandledError ==
    ps_pc = "done" => ps_res.tag \in {"ok", "cancel"}

----------------------------------------------------------------------------
(* A session of one page.  Every calculator is a reactive.Calc: it keeps   *)
(* what it returned or raised until something it read changes.  An edit of *)
(* an input invalidates what read it, directly or through calculators, and *)
(* the flush that follows runs every invalidated output again; an output   *)
(* runs the invalidated calculators it calls.                              *)

Range(f) == {f[i] : i \in DOMAIN f}
SetMin(S) == CHOOSE x \in S : \A y \in S : x <= y

\* a calculator invalidated and not yet run again
Invalidated == [tag |-> "invalid", exc |-> "", val |-> NoVal]

\* the environment a calculator or an output runs in
Env(c, i) == [cache |-> c, inp |-> i]

\* input.name() or calculator name(): a value, or what the calculator raised
Lookup(env, name) ==
    IF name \in DOMAIN env.inp THEN Ok(env.inp[name]) ELSE env.cache[name]

\* nothing read, r returned or raised
Done(r) == [res |-> r, reads |-> {}]

\* the inputs and calculators of names called in this order: their values,
\* or what the first failing one raised (the later ones are then not called)
ReadAll(env, names) ==
    Let({i \in 1..Len(names) : ~IsOk(Lookup(env, names[i]))}, LAMBDA bad :
        IF bad = {}
        THEN [res |-> Ok([i \in 1..Len(names) |-> Lookup(env, names[i]).val]),
              reads |-> Range(names)]
        ELSE [res |-> Lookup(env, names[SetMin(bad)]),
              reads |-> {names[i] : i \in 1..SetMin(bad)}])

\* first, and if it did not raise, K on its value
Then(first, K(_)) ==
    Let(first, LAMBDA f :
        IF ~IsOk(f.res) THEN f
        ELSE Let(K(f.res.val), LAMBDA k :
                 [res |-> k.res, reads |-> f.reads \cup k.reads]))

\* what an output shows: a rendered value, nothing, or an error message
Shown(status, exc, content) == [status |-> status, exc |-> exc, shown |-> content]

----------------------------------------------------------------------------
(* trade_and_ppf.py *)

\* no party (None), or the party of this name
None == [some |-> FALSE, name |-> ""]
Some(name) == [some |-> TRUE, name |-> name]

\* str.title() on the party names of the model
Title(name) ==
    CASE name = "christopher" -> "Christopher"
      [] name = "broderick" -> "Broderick"
      [] OTHER -> name

\* the holder of the advantage in one good (lines 85-90 and 91-96)
party_adv(max_a, max_b, party_a, party_b) ==
    IF RLt(max_b, max_a) THEN Some(party_a)
    ELSE IF max_a = max_b THEN None
    ELSE Some(party_b)

\* one sentence of the two-sentence text
advantage_sentence(adv, kind, good) ==
    IF ~adv.some
    THEN "Neither has the " \o kind \o " advantage in the production of " \o good \o "."
    ELSE Title(adv.name) \o " has the " \o kind \o " advantage in the production of "
            \o good \o "."

\* the holders compared by identity, not by name
generate_advantage_text_by_party(good_a, good_b, party_a, max_a_a, max_a_b, party_b, max_b_a, max_b_b, kind) ==
    IF (RLt(max_b_a, max_a_a) /\ RLt(max_b_b, max_a_b))
       \/ (RLt(max_a_a, max_b_a) /\ RLt(max_a_b, max_b_b))
       \/ (max_a_a = max_b_a /\ max_a_b = max_b_b)
    THEN (IF max_a_a = max_b_a THEN "Neither"
          ELSE Title(party_adv(max_a_a, max_b_a, party_a, party_b).name))
         \o " has the " \o kind \o " advantage in the production of both "
         \o good_a \o " and " \o good_b \o "."
    ELSE advantage_sentence(party_adv(max_a_a, max_b_a, party_a, party_b), kind, good_a)
         \o " "
         \o advantage_sentence(party_adv(max_a_b, max_b_b, party_a, party_b), kind, good_b)

generate_advantage_text(good_a, good_b, party_a, max_a_a, max_a_b, party_b, max_b_a, max_b_b, kind) ==
    Let(party_adv(max_a_a, max_b_a, party_a, party_b), LAMBDA party_adv_a :
    Let(party_adv(max_a_b, max_b_b, party_a, party_b), LAMBDA party_adv_b :
        IF party_adv_a = party_adv_b
        THEN (IF ~party_adv_a.some THEN Title("Neither") ELSE Title(party_adv_a.name))
             \o " has the " \o kind \o " advantage in the production of both "
             \o good_a \o " and " \o good_b \o "."
        ELSE advantage_sentence(party_adv_a, kind, good_a) \o " "
             \o advantage_sentence(party_adv_b, kind, good_b)))

TradeCalcs ==
    <<"max_a_a", "max_a_b", "max_b_a", "max_b_b",
      "cost_a_a", "cost_a_b", "cost_b_a", "cost_b_b", "oppo_cost_df">>

TradeOutputs == <<"abs_adv", "oppo_cost", "comp_adv", "ppf">>

\* quotient of two sanitized numbers
Quotient(x, y) == Ok(Num(RDiv(x.a, y.a)))

\* a kink chosen with the comparison of the two costs the other way round
kink_reversed(cost_a_a, cost_b_a, max_a_a, max_a_b, max_b_a, max_b_b) ==
    IF RLt(cost_b_a.a, cost_a_a.a)
    THEN [mid_a |-> max_a_a, mid_b |-> max_b_b, show_dashed |-> TRUE]
    ELSE IF cost_a_a = cost_b_a
    THEN [mid_a |-> max_a_a, mid_b |-> max_b_b, show_dashed |-> FALSE]
    ELSE [mid_a |-> max_b_a, mid_b |-> max_a_b, show_dashed |-> TRUE]

\* mid_a, mid_b, show_dashed of ppf
kink(cost_a_a, cost_b_a, max_a_a, max_a_b, max_b_a, max_b_b) ==
    IF RLt(cost_a_a.a, cost_b_a.a)
    THEN [mid_a |-> max_a_a, mid_b |-> max_b_b, show_dashed |-> TRUE]
    ELSE IF cost_a_a = cost_b_a
    THEN [mid_a |-> max_a_a, mid_b |-> max_b_b, show_dashed |-> FALSE]
    ELSE [mid_a |-> max_b_a, mid_b |-> max_a_b, show_dashed |-> TRUE]

\* the axes ppf returns: the frontier of each party, the joint frontier as
\* its three points (good b, good a), and the dashed lines to the kink
ppf_axes(v, mid) ==
    [xlabel |-> v[4], ylabel |-> v[3],
     lines |-> <<[label |-> v[1],
                  points |-> <<<<RZero, v[7].a>>, <<v[8].a, RZero>>>>],
                 [label |-> v[2],
                  points |-> <<<<RZero, v[9].a>>, <<v[10].a, RZero>>>>],
                 [label |-> "Joint",
                  points |-> <<<<RZero, RAdd(v[7].a, v[9].a)>>,
                               <<mid.mid_b.a, mid.mid_a.a>>,
                               <<RAdd(v[8].a, v[10].a), RZero>>>>]>>,
     dashed |-> IF mid.show_dashed
                THEN {[kind |-> "hlines", at |-> mid.mid_a.a, to |-> mid.mid_b.a],
                      [kind |-> "vlines", at |-> mid.mid_b.a, to |-> mid.mid_a.a]}
                ELSE {}]

\* the body of each calculator and render function of trade_and_ppf_server
TradeExec(n, env) ==
    CASE n = "max_a_a" ->
            Then(ReadAll(env, <<"input.max_a_a">>), LAMBDA v : Done(sanitize(v[1])))
      [] n = "max_a_b" ->
            Then(ReadAll(env, <<"input.max_a_b">>), LAMBDA v : Done(sanitize(v[1])))
      [] n = "max_b_a" ->
            Then(ReadAll(env, <<"input.max_b_a">>), LAMBDA v : Done(sanitize(v[1])))
      [] n = "max_b_b" ->
            Then(ReadAll(env, <<"input.max_b_b">>), LAMBDA v : Done(sanitize(v[1])))
      [] n = "cost_a_a" ->
            Then(ReadAll(env, <<"max_a_b", "max_a_a">>),
                 LAMBDA v : Done(Quotient(v[1], v[2])))
      [] n = "cost_a_b" ->
            Then(ReadAll(env, <<"max_a_a", "max_a_b">>),
                 LAMBDA v : Done(Quotient(v[1], v[2])))
      [] n = "cost_b_a" ->
            Then(ReadAll(env, <<"max_b_b", "max_b_a">>),
                 LAMBDA v : Done(Quotient(v[1], v[2])))
      [] n = "cost_b_b" ->
            Then(ReadAll(env, <<"max_b_a", "max_b_b">>),
                 LAMBDA v : Done(Quotient(v[1], v[2])))
      [] n = "abs_adv" ->
            Then(ReadAll(env, <<"input.good_a", "input.good_b", "input.party_a",
                                "max_a_a", "max_a_b", "input.party_b",
                                "max_b_a", "max_b_b">>),
                 LAMBDA v : Done(Ok(generate_advantage_text(
                     v[1], v[2], v[3], v[4].a, v[5].a, v[6], v[7].a, v[8].a,
                     "absolute"))))
      [] n = "oppo_cost_df" ->
            Then(ReadAll(env, <<"input.party_a", "input.party_b", "input.good_a",
                                "input.good_b", "cost_a_a", "cost_a_b",
                                "cost_b_a", "cost_b_b">>),
                 LAMBDA v : Done(Ok([k |-> "df", index |-> <<v[1], v[2]>>,
                                     columns |-> <<v[3], v[4]>>,
                                     cells |-> <<<<v[5], v[6]>>, <<v[7], v[8]>>>>])))
      [] n = "oppo_cost" ->
            Then(ReadAll(env, <<"oppo_cost_df", "settings.perc", "settings.approx">>),
                 LAMBDA v : Done(Ok([index |-> v[1].index, columns |-> v[1].columns,
                     cells |-> [i \in 1..2 |-> [j \in 1..2 |->
                         "\\(" \o latex_approx(v[1].cells[i][j], v[2], v[3]) \o "\\)"]]])))
      [] n = "comp_adv" ->
            Then(ReadAll(env, <<"oppo_cost_df", "input.good_a", "input.good_b",
                                "input.party_a", "input.party_b">>),
                 LAMBDA v : Done(Ok(generate_advantage_text(
                     v[2], v[3], v[4], v[1].cells[1][1].a, v[1].cells[1][2].a,
                     v[5], v[1].cells[2][1].a, v[1].cells[2][2].a,
                     "comparative"))))
      [] n = "ppf" ->
            Then(ReadAll(env, <<"input.party_a", "input.party_b", "input.good_a",
                                "input.good_b", "cost_a_a", "cost_b_a",
                                "max_a_a", "max_a_b", "max_b_a", "max_b_b">>),
                 LAMBDA v : Done(Ok(ppf_axes(v,
                     kink(v[5], v[6], v[7], v[8], v[9], v[10])))))

\* the party names and the texts of the four capacity fields tried
PartyNames == {"Broderick", "Christopher", "christopher"}
MaxTexts == {<<NumTok(2)>>, <<NumTok(8)>>, <<NumTok(0)>>, <<Tok("x")>>}

\* the inputs as trade_and_ppf_ui creates them
TradeDefaults ==
    [n \in {"input.good_a", "input.good_b", "input.party_a", "input.party_b",
            "input.max_a_a", "input.max_a_b", "input.max_b_a", "input.max_b_b",
            "settings.perc", "settings.approx"} |->
        CASE n = "input.good_a" -> "Pepper mills"
          [] n = "input.good_b" -> "Salt shakers"
          [] n = "input.party_a" -> "Broderick"
          [] n = "input.party_b" -> "Christopher"
          [] n = "input.max_a_a" -> <<NumTok(8)>>
          [] n = "input.max_a_b" -> <<NumTok(8)>>
          [] n = "input.max_b_a" -> <<NumTok(2)>>
          [] n = "input.max_b_b" -> <<NumTok(4)>>
          [] n = "settings.perc" -> 15
          [] n = "settings.approx" -> "Hide"]

----------------------------------------------------------------------------
(* module.py and taxes_and_subsidies.py *)

\* r > 0
Positive(r) == RLt(RZero, r)

\* a solution of solve(..., dict=True): the symbols it gives a value to
Dict(keys, P, Q) == [k |-> "dict", keys |-> keys, P |-> P, Q |-> Q]

\* solve([u, v], symbol_P, symbol_Q, dict=True) for u: a + b*Q + c*P = 0 and
\* v alike: the one solution of an independent pair, kept when it agrees with
\* P > 0 and Q > 0; none of a contradictory pair; of a dependent pair one
\* symbol in terms of the other
solve_P_Q(u, v) ==
    Let(RSub(RMul(u.b, v.c), RMul(u.c, v.b)), LAMBDA det :
        IF det # RZero
        THEN Let(RDiv(RSub(RMul(u.c, v.a), RMul(u.a, v.c)), det), LAMBDA q :
             Let(RDiv(RSub(RMul(v.b, u.a), RMul(u.b, v.a)), det), LAMBDA p :
                 IF Positive(q) /\ Positive(p)
                 THEN <<Dict({"P", "Q"}, Num(p), Num(q))>>
                 ELSE <<>>))
        ELSE Let(IF u.b # RZero \/ u.c # RZero THEN <<u, v>> ELSE <<v, u>>, LAMBDA rs :
             IF rs[1].b = RZero /\ rs[1].c = RZero THEN <<>>
             ELSE IF \/ RMul(rs[2].a, rs[1].b) # RMul(rs[1].a, rs[2].b)
                     \/ RMul(rs[2].a, rs[1].c) # RMul(rs[1].a, rs[2].c)
             THEN <<>>
             ELSE IF rs[1].c # RZero
             THEN (IF solve_P(rs[1]) = <<>> THEN <<>>
                   ELSE <<Dict({"P"}, solve_P(rs[1])[1], NoVal)>>)
             ELSE Let(RNeg(RDiv(rs[1].a, rs[1].b)), LAMBDA q :
                      IF Positive(q) THEN <<Dict({"Q"}, NoVal, Num(q))>> ELSE <<>>)))

\* req(len(solutions) == 1); return solutions[0]
TheOnly(solutions) == IF Len(solutions) = 1 THEN Ok(solutions[1]) ELSE Silent

\* solution[symbol]
Item(solution, symbol) ==
    IF symbol \notin solution.keys THEN Raise("KeyError")
    ELSE IF symbol = "P" THEN Ok(solution.P) ELSE Ok(solution.Q)

\* the shift of the taxed supply curve with the sign of the demand side
minus_as_plus(t) == t

\* the tax as the price shift of the taxed supply curve: P - t
minus(t) == RNeg(t)
\* the tax as the price shift of the taxed demand curve: P + t
plus(t) == t

\* expr.subs(symbol_P, symbol_P + shift)
subs_P(expr, shift) == [expr EXCEPT !.a = RAdd(expr.a, RMul(expr.c, shift))]

\* expr.subs(symbol_Q, value) for expr = a + b*Q + d*Q^2
subs_Q(expr, value) ==
    Num(RAdd(RAdd(expr.a, RMul(expr.b, value)), RMul(expr.d, RMul(value, value))))

\* the integral of a + b*Q with the limits exchanged
integrate_reversed(a, b, lo, hi) ==
    RAdd(RMul(a, RSub(lo, hi)),
         RMul(RMul(b, Rat(1, 2)), RSub(RMul(lo, lo), RMul(hi, hi))))

\* integrate(a + b*Q, (symbol_Q, lo, hi))
integrate(a, b, lo, hi) ==
    RAdd(RMul(a, RSub(hi, lo)),
         RMul(RMul(b, Rat(1, 2)), RSub(RMul(hi, hi), RMul(lo, lo))))

\* a text output as its template and the expressions latex_approx typesets
\* into it with the settings read
Text(template, exprs, perc, approx) ==
    [template |-> template, exprs |-> exprs, perc |-> perc, approx |-> approx]

\* float(value) of a sympy number: the double nearest to it, kept as the
\* number it rounds
float(v) == Val("double", v.a, RZero, RZero, 53)

\* the difference of two doubles
float_sub(x, y) == [k |-> "float_sub", x |-> x, y |-> y]

\* max of two sympy numbers
max(x, y) == IF RLt(x.a, y.a) THEN y ELSE x

is_zero(v) == v.k = "num" /\ v.a = RZero

TaxCalcs ==
    <<"demand", "P_d", "supply", "P_s", "consumer_tax", "producer_tax",
      "equilibrium", "P_optimal", "Q_optimal", "taxed_demand", "taxed_P_d",
      "taxed_supply", "taxed_P_s", "taxed_equilibrium", "Q_taxed",
      "P_taxed_consumer", "P_taxed_producer", "GR", "DWL">>

TaxOutputs ==
    <<"P_d_text", "P_s_text", "taxed_demand_text", "taxed_supply_text",
      "taxed_equilibrium_text", "government_revenue_text",
      "deadweight_loss_text", "tax_plot", "tax_incidence_text">>

Settings == <<"settings.perc", "settings.approx">>

\* tax_incidence_text once both taxes are read
tax_incidence_text(env, tc, tp) ==
    IF is_zero(tc) /\ is_zero(tp) THEN Done(Ok(Text("No tax is imposed", <<>>, 0, "")))
    ELSE Then(ReadAll(env, Settings \o <<"P_taxed_producer", "P_taxed_consumer", "P_optimal">>),
              LAMBDA v : Done(Ok(Text("The government imposes a tax",
                  <<tc, tp, v[4], v[3],
                    Num(RSub(v[4].a, v[5].a)), Num(RSub(v[5].a, v[3].a))>>,
                  v[1], v[2]))))

\* the body of each calculator and render function of demand_supply_server
\* and taxes_and_subsidies_server
TaxExec(n, env) ==
    CASE n = "demand" ->
            Then(ReadAll(env, <<"input.Q_d">>), LAMBDA v : Done(demand(v[1])))
      [] n = "P_d" ->
            Then(ReadAll(env, <<"demand">>), LAMBDA v : Done(TheOnly(solve_P(v[1]))))
      [] n = "supply" ->
            Then(ReadAll(env, <<"input.Q_s">>), LAMBDA v : Done(supply(v[1])))
      [] n = "P_s" ->
            Then(ReadAll(env, <<"supply">>), LAMBDA v : Done(TheOnly(solve_P(v[1]))))
      [] n = "consumer_tax" ->
            Then(ReadAll(env, <<"input.tc">>), LAMBDA v : Done(consumer_tax(v[1])))
      [] n = "producer_tax" ->
            Then(ReadAll(env, <<"input.tp">>), LAMBDA v : Done(producer_tax(v[1])))
      [] n = "equilibrium" ->
            Then(ReadAll(env, <<"demand", "supply">>),
                 LAMBDA v : Done(TheOnly(solve_P_Q(v[1], v[2]))))
      [] n = "P_optimal" ->
            Then(ReadAll(env, <<"equilibrium">>), LAMBDA v : Done(Item(v[1], "P")))
      [] n = "Q_optimal" ->
            Then(ReadAll(env, <<"equilibrium">>), LAMBDA v : Done(Item(v[1], "Q")))
      [] n = "taxed_demand" ->
            Then(ReadAll(env, <<"demand", "consumer_tax">>),
                 LAMBDA v : Done(Ok(subs_P(v[1], plus(v[2].a)))))
      [] n = "taxed_P_d" ->
            Then(ReadAll(env, <<"taxed_demand">>),
                 LAMBDA v : Done(TheOnly(solve_P(v[1]))))
      [] n = "taxed_supply" ->
            Then(ReadAll(env, <<"supply", "producer_tax">>),
                 LAMBDA v : Done(Ok(subs_P(v[1], minus(v[2].a)))))
      [] n = "taxed_P_s" ->
            Then(ReadAll(env, <<"taxed_supply">>),
                 LAMBDA v : Done(TheOnly(solve_P(v[1]))))
      [] n = "taxed_equilibrium" ->
            Then(ReadAll(env, <<"taxed_demand", "taxed_supply">>),
                 LAMBDA v : Done(TheOnly(solve_P_Q(v[1], v[2]))))
      [] n = "Q_taxed" ->
            Then(ReadAll(env, <<"taxed_equilibrium">>), LAMBDA v : Done(Item(v[1], "Q")))
      [] n = "P_taxed_consumer" ->
            Then(ReadAll(env, <<"P_d", "Q_taxed">>),
                 LAMBDA v : Done(Ok(subs_Q(v[1], v[2].a))))
      [] n = "P_taxed_producer" ->
            Then(ReadAll(env, <<"P_s", "Q_taxed">>),
                 LAMBDA v : Done(Ok(subs_Q(v[1], v[2].a))))
      [] n = "GR" ->
            Then(ReadAll(env, <<"consumer_tax", "producer_tax", "Q_taxed">>),
                 LAMBDA v : Done(Ok(Num(RMul(RAdd(v[1].a, v[2].a), v[3].a)))))
      [] n = "DWL" ->
            Then(ReadAll(env, <<"P_d", "P_s", "Q_taxed", "Q_optimal">>),
                 LAMBDA v : Done(Ok(Num(integrate(
                     RSub(v[1].a, v[2].a), RSub(v[1].b, v[2].b), v[3].a, v[4].a)))))
      [] n = "P_d_text" ->
            Then(ReadAll(env, <<"P_d">> \o Settings),
                 LAMBDA v : Done(Ok(Text("P_d", <<v[1]>>, v[2], v[3]))))
      [] n = "P_s_text" ->
            Then(ReadAll(env, <<"P_s">> \o Settings),
                 LAMBDA v : Done(Ok(Text("P_s", <<v[1]>>, v[2], v[3]))))
      [] n = "taxed_demand_text" ->
            Then(ReadAll(env, <<"taxed_demand">> \o Settings \o <<"taxed_P_d">>),
                 LAMBDA v : Done(Ok(Text("taxed P_d", <<v[1], v[4]>>, v[2], v[3]))))
      [] n = "taxed_supply_text" ->
            Then(ReadAll(env, <<"taxed_supply">> \o Settings \o <<"taxed_P_s">>),
                 LAMBDA v : Done(Ok(Text("taxed P_s", <<v[1], v[4]>>, v[2], v[3]))))
      [] n = "taxed_equilibrium_text" ->
            Then(ReadAll(env, <<"taxed_demand", "taxed_supply", "Q_taxed">> \o Settings),
                 LAMBDA v : Done(Ok(Text("Q^t", <<v[1], v[2], v[3]>>, v[4], v[5]))))
      [] n = "government_revenue_text" ->
            Then(ReadAll(env, <<"GR">> \o Settings),
                 LAMBDA v : Done(Ok(Text("GR", <<v[1]>>, v[2], v[3]))))
      [] n = "deadweight_loss_text" ->
            Then(ReadAll(env, <<"DWL">> \o Settings),
                 LAMBDA v : Done(Ok(Text("DWL", <<v[1]>>, v[2], v[3]))))
      [] n = "tax_plot" ->
            Then(ReadAll(env, <<"settings.style", "Q_optimal", "Q_taxed",
                                "P_taxed_producer", "P_taxed_consumer",
                                "P_optimal", "P_d", "P_s">>),
                 LAMBDA v :
                     IF \E i \in 2..6 : v[i].k # "num" THEN Done(Raise("TypeError"))
                     ELSE Done(Ok(
                     [Q_lim |-> Num(RMul(RInt(2), max(v[2], v[3]).a)),
                      Q_t |-> float(v[3]),
                      Q_o |-> float(v[2]),
                      P_o |-> float(v[6]),
                      curves |-> <<v[7], v[8]>>,
                      GR |-> [xy |-> <<float(Num(RZero)), float(v[4])>>,
                              width |-> float(v[3]),
                              height |-> float_sub(float(v[5]), float(v[4]))]])))
      [] n = "tax_incidence_text" ->
            Then(ReadAll(env, <<"consumer_tax">>), LAMBDA c :
                Then(ReadAll(env, IF is_zero(c[1]) THEN <<"producer_tax">>
                                  ELSE Settings \o <<"producer_tax">>),
                     LAMBDA t : tax_incidence_text(env, c[1], t[Len(t)])))

\* the texts tried in the demand, supply and tax fields
DemandTexts ==
    { <<Tok("Q"), Tok("="), NumTok(50), Tok("-"), Tok("P"), Tok("/"), NumTok(2)>>,
      <<Tok("Q"), Tok("="), NumTok(10), Tok("-"), Tok("P")>>,
      <<Tok("Q"), Tok("="), Tok("P"), Tok("/"), NumTok(2), Tok("-"), NumTok(1)>>,
      <<Tok("Q"), Tok("="), NumTok(50), Tok("-")>> }
SupplyTexts ==
    { <<Tok("Q"), Tok("="), Tok("P"), Tok("-"), NumTok(5)>>,
      <<Tok("Q"), Tok("="), Tok("P"), Tok("+"), NumTok(5)>>,
      <<Tok("Q"), Tok("="), NumTok(10), Tok("-"), Tok("P")>> }
TaxTexts == { <<NumTok(5)>>, <<NumTok(0)>>, <<NumTok(10)>>, <<Tok("-"), NumTok(5)>>, <<>> }

\* the inputs as demand_supply_ui and taxes_and_subsidies_ui create them
TaxDefaults ==
    [n \in {"input.Q_d", "input.Q_s", "input.tc", "input.tp",
            "settings.perc", "settings.approx", "settings.style"} |->
        CASE n = "input.Q_d" ->
                <<Tok("Q"), Tok("="), NumTok(50), Tok("-"), Tok("P"), Tok("/"), NumTok(2)>>
          [] n = "input.Q_s" -> <<Tok("Q"), Tok("="), Tok("P"), Tok("-"), NumTok(5)>>
          [] n = "input.tc" -> <<NumTok(5)>>
          [] n = "input.tp" -> <<NumTok(5)>>
          [] n = "settings.perc" -> 15
          [] n = "settings.approx" -> "Hide"
          [] n = "settings.style" -> "default"]

----------------------------------------------------------------------------
(* monopoly.py *)

\* expr * symbol_q for expr = a + b*Q
times_Q(expr) ==
    IF expr.k = "sym" \/ expr.d # RZero THEN Sym
    ELSE Quad("lin", RZero, expr.a, RZero, expr.b)

\* a derivative that forgets the power rule
diff_without_power_rule(expr) ==
    IF expr.k = "sym" THEN Sym
    ELSE Lin(expr.b, expr.d, RZero)

\* diff(expr, symbol_q)
diff(expr) ==
    IF expr.k = "sym" THEN Sym
    ELSE Lin(expr.b, RMul(RInt(2), expr.d), RZero)

\* expr / symbol_q, kept as the numerator
over_Q(expr) == [expr EXCEPT !.k = IF expr.k = "sym" THEN "sym" ELSE "over_Q"]

\* (expr / symbol_q).subs({symbol_q: value})
subs_over_Q(expr, value) == Num(RDiv(subs_Q(expr, value).a, value))

\* solve(u - v, symbol_q, dict=True) for u and v linear in Q: the solutions
\* that agree with Q > 0
solve_Q(u, v) ==
    Let(RSub(u.a, v.a), LAMBDA a :
    Let(RSub(u.b, v.b), LAMBDA b :
        IF b = RZero THEN <<>>
        ELSE IF Positive(RNeg(RDiv(a, b))) THEN <<Num(RNeg(RDiv(a, b)))>>
        ELSE <<>>))

MonopolyCalcs ==
    <<"demand", "total_revenue", "marginal_revenue", "total_cost",
      "marginal_cost", "average_total_cost", "monopoly_quantity",
      "monopoly_price", "monopoly_atc", "monopoly_profit", "consumer_surplus",
      "producer_surplus", "competitive_quantity", "deadweight_loss">>

MonopolyOutputs ==
    <<"demand_text", "marginal_revenue_text", "total_cost_text",
      "marginal_cost_text", "monopoly_text", "monopoly_profit_text",
      "consumer_surplus_text", "producer_surplus_text", "deadweight_loss_text",
      "monopoly_plot">>

\* a text output of one expression
OneExprText(env, n) ==
    Then(ReadAll(env, <<n>> \o Settings), LAMBDA v : Done(Ok(Text(n, <<v[1]>>, v[2], v[3]))))

\* the body of each calculator and render function of monopoly_server
MonopolyExec(n, env) ==
    CASE n = "demand" ->
            Then(ReadAll(env, <<"input.demand">>), LAMBDA v : Done(monopoly_demand(v[1])))
      [] n = "total_revenue" ->
            Then(ReadAll(env, <<"demand">>), LAMBDA v : Done(Ok(times_Q(v[1]))))
      [] n = "marginal_revenue" ->
            Then(ReadAll(env, <<"total_revenue">>), LAMBDA v : Done(Ok(diff(v[1]))))
      [] n = "total_cost" ->
            Then(ReadAll(env, <<"input.total_cost">>), LAMBDA v : Done(total_cost(v[1])))
      [] n = "marginal_cost" ->
            Then(ReadAll(env, <<"total_cost">>), LAMBDA v : Done(Ok(diff(v[1]))))
      [] n = "average_total_cost" ->
            Then(ReadAll(env, <<"total_cost">>), LAMBDA v : Done(Ok(over_Q(v[1]))))
      [] n = "monopoly_quantity" ->
            Then(ReadAll(env, <<"marginal_revenue", "marginal_cost">>),
                 LAMBDA v : Done(TheOnly(solve_Q(v[1], v[2]))))
      [] n = "monopoly_price" ->
            Then(ReadAll(env, <<"demand", "monopoly_quantity">>),
                 LAMBDA v : Done(Ok(subs_Q(v[1], v[2].a))))
      [] n = "monopoly_atc" ->
            Then(ReadAll(env, <<"average_total_cost", "monopoly_quantity">>),
                 LAMBDA v : Done(Ok(subs_over_Q(v[1], v[2].a))))
      [] n = "monopoly_profit" ->
            Then(ReadAll(env, <<"monopoly_price", "monopoly_atc", "monopoly_quantity">>),
                 LAMBDA v : Done(Ok(Num(RMul(RSub(v[1].a, v[2].a), v[3].a)))))
      [] n = "consumer_surplus" ->
            Then(ReadAll(env, <<"demand", "monopoly_price", "monopoly_quantity">>),
                 LAMBDA v : Done(Ok(Num(integrate(
                     RSub(v[1].a, v[2].a), v[1].b, RZero, v[3].a)))))
      [] n = "producer_surplus" ->
            Then(ReadAll(env, <<"monopoly_price", "marginal_cost", "monopoly_quantity">>),
                 LAMBDA v : Done(Ok(Num(integrate(
                     RSub(v[1].a, v[2].a), RNeg(v[2].b), RZero, v[3].a)))))
      [] n = "competitive_quantity" ->
            Then(ReadAll(env, <<"demand", "marginal_cost">>),
                 LAMBDA v : Done(TheOnly(solve_Q(v[1], v[2]))))
      [] n = "deadweight_loss" ->
            Then(ReadAll(env, <<"demand", "marginal_cost", "monopoly_quantity",
                                "competitive_quantity">>),
                 LAMBDA v : Done(Ok(Num(integrate(
                     RSub(v[1].a, v[2].a), RSub(v[1].b, v[2].b), v[3].a, v[4].a)))))
      [] n = "demand_text" -> OneExprText(env, "demand")
      [] n = "marginal_revenue_text" -> OneExprText(env, "marginal_revenue")
      [] n = "total_cost_text" -> OneExprText(env, "total_cost")
      [] n = "marginal_cost_text" -> OneExprText(env, "marginal_cost")
      [] n = "monopoly_text" ->
            Then(ReadAll(env, <<"marginal_revenue", "marginal_cost", "monopoly_price">>
                              \o Settings \o <<"monopoly_quantity">>),
                 LAMBDA v : Done(Ok(Text("P^m, Q^m", <<v[1], v[2], v[3], v[6]>>,
                                         v[4], v[5]))))
      [] n = "monopoly_profit_text" -> OneExprText(env, "monopoly_profit")
      [] n = "consumer_surplus_text" -> OneExprText(env, "consumer_surplus")
      [] n = "producer_surplus_text" -> OneExprText(env, "producer_surplus")
      [] n = "deadweight_loss_text" -> OneExprText(env, "deadweight_loss")
      [] n = "monopoly_plot" ->
            Then(ReadAll(env, <<"demand", "average_total_cost", "marginal_cost",
                                "marginal_revenue", "monopoly_quantity",
                                "monopoly_price">>),
                 LAMBDA v : Done(Ok([curves |-> <<v[1], v[2], v[3], v[4]>>,
                                     q_m |-> float(v[5]),
                                     p_m |-> float(v[6])])))

\* the texts tried in the demand and total cost fields
MonopolyDemandTexts ==
    { <<Tok("P"), Tok("="), NumTok(360), Tok("-"), NumTok(2), Tok("Q")>>,
      <<Tok("P"), Tok("="), NumTok(100), Tok("-"), Tok("Q")>>,
      <<Tok("Q"), Tok("="), NumTok(5)>>,
      <<Tok("P"), Tok("="), NumTok(360), Tok("-")>>,
      <<Tok("P"), Tok("="), Tok("("), NumTok(360)>> }
TotalCostTexts ==
    { <<NumTok(300), Tok("+"), NumTok(10), Tok("Q"), Tok("+"),
        Tok("Q"), Tok("^"), NumTok(2), Tok("/"), NumTok(2)>>,
      <<NumTok(10), Tok("Q")>>,
      <<NumTok(300)>>,
      <<NumTok(400), Tok("Q")>>,
      <<NumTok(300), Tok("+"), NumTok(10), Tok("Q"), Tok("+")>> }

\* the inputs as monopoly_ui creates them
MonopolyDefaults ==
    [n \in {"input.demand", "input.total_cost", "settings.perc", "settings.approx"} |->
        CASE n = "input.demand" ->
                <<Tok("P"), Tok("="), NumTok(360), Tok("-"), NumTok(2), Tok("Q")>>
          [] n = "input.total_cost" ->
                <<NumTok(300), Tok("+"), NumTok(10), Tok("Q"), Tok("+"),
                  Tok("Q"), Tok("^"), NumTok(2), Tok("/"), NumTok(2)>>
          [] n = "settings.perc" -> 15
          [] n = "settings.approx" -> "Hide"]

----------------------------------------------------------------------------
(* equilibrium_and_welfare.py *)

\* the module imports Eq, integrate, latex, parse_expr, solve and symbols
\* from sympy; the name simplify is looked up when a calculator runs, before
\* the argument of the call is evaluated
NameError == Raise("NameError")

\* an output of expressions typeset by latex into a template
Latex(template, exprs) == [template |-> template, exprs |-> exprs]

WelfareCalcs ==
    <<"demand", "P_d", "supply", "P_s", "equilibrium", "P_optimal", "Q_optimal",
      "CS", "PS", "TS">>

WelfareOutputs == <<"ew_P_d", "ew_P_s", "ew_equilibrium", "ew_CS", "ew_PS", "ew_TS">>

\* the body of each calculator and render function of
\* equilibrium_and_welfare_server
WelfareExec(n, env) ==
    CASE n = "demand" ->
            Then(ReadAll(env, <<"input.ew_Q_d">>),
                 LAMBDA v : Done(parse_expr_safer(v[1], {"P", "Q"}, TRUE)))
      [] n = "P_d" ->
            Then(ReadAll(env, <<"demand">>), LAMBDA v : Done(TheOnly(solve_P(v[1]))))
      [] n = "supply" ->
            Then(ReadAll(env, <<"input.ew_Q_s">>),
                 LAMBDA v : Done(parse_expr_safer(v[1], {"P", "Q"}, TRUE)))
      [] n = "P_s" ->
            Then(ReadAll(env, <<"supply">>), LAMBDA v : Done(TheOnly(solve_P(v[1]))))
      [] n = "equilibrium" ->
            Then(ReadAll(env, <<"demand", "supply">>),
                 LAMBDA v : Done(TheOnly(solve_P_Q(v[1], v[2]))))
      [] n = "P_optimal" ->
            Then(ReadAll(env, <<"equilibrium">>), LAMBDA v : Done(Item(v[1], "P")))
      [] n = "Q_optimal" ->
            Then(ReadAll(env, <<"equilibrium">>), LAMBDA v : Done(Item(v[1], "Q")))
      [] n = "CS" -> Done(NameError)
      [] n = "PS" -> Done(NameError)
      [] n = "TS" -> Done(NameError)
      [] n = "ew_P_d" ->
            Then(ReadAll(env, <<"P_d">>), LAMBDA v : Done(Ok(Latex("P_d", v))))
      [] n = "ew_P_s" ->
            Then(ReadAll(env, <<"P_s">>), LAMBDA v : Done(Ok(Latex("P_s", v))))
      [] n = "ew_equilibrium" ->
            Then(ReadAll(env, <<"demand", "supply", "P_optimal", "Q_optimal">>),
                 LAMBDA v : Done(Ok(Latex("P^*, Q^*", v))))
      [] n = "ew_CS" ->
            Then(ReadAll(env, <<"CS">>), LAMBDA v : Done(Ok(Latex("CS", v))))
      [] n = "ew_PS" ->
            Then(ReadAll(env, <<"PS">>), LAMBDA v : Done(Ok(Latex("PS", v))))
      [] n = "ew_TS" ->
            Then(ReadAll(env, <<"TS">>), LAMBDA v : Done(Ok(Latex("TS", v))))

\* the texts tried in the two fields of the page
WelfareDemandTexts ==
    DemandTexts \cup
    { <<Tok("Q"), Tok("="), NumTok(20), Tok("-"), Tok("P")>>,
      <<Tok("Q"), Tok("="), NumTok(5)>>,
      <<Tok("Q"), Tok("="), Tok("("), NumTok(50)>> }
WelfareSupplyTexts ==
    SupplyTexts \cup
    { <<Tok("Q"), Tok("="), NumTok(2), Tok("P")>>,
      <<Tok("Q"), Tok("="), Tok("P"), Tok("-")>>,
      <<>> }

\* the inputs as equilibrium_and_welfare_ui creates them
WelfareDefaults ==
    [n \in {"input.ew_Q_d", "input.ew_Q_s"} |->
        CASE n = "input.ew_Q_d" ->
                <<Tok("Q"), Tok("="), NumTok(50), Tok("-"), Tok("P"), Tok("/"), NumTok(2)>>
          [] n = "input.ew_Q_s" ->
                <<Tok("Q"), Tok("="), Tok("P"), Tok("-"), NumTok(5)>>]

----------------------------------------------------------------------------
(* externalities.py, with the demand_supply module (module.py) it calls *)

\* x + y for two expressions in Q
add(x, y) ==
    IF x.k = "sym" \/ y.k = "sym" THEN Sym
    ELSE Quad("lin", RAdd(x.a, y.a), RAdd(x.b, y.b), RZero, RAdd(x.d, y.d))

\* the equation symbol_P - expr = 0 for expr = a + b*Q
P_minus(expr) == Eq(RNeg(expr.a), RNeg(expr.b), RInt(1))

\* the integral of MSB - MSC taken from Q_optimal to Q_market
integrate_from_optimal(msb, msc, Q_m, Q_o) ==
    Num(integrate(RSub(msb.a, msc.a), RSub(msb.b, msc.b), Q_o.a, Q_m.a))

\* integrate(MSB() - MSC(), (symbol_Q, Q_market(), Q_optimal()))
integrate_from_market(msb, msc, Q_m, Q_o) ==
    Num(integrate(RSub(msb.a, msc.a), RSub(msb.b, msc.b), Q_m.a, Q_o.a))

\* the formula deadweight_loss_text displays
dwl_formula(Q_o, Q_m) ==
    IF RLt(Q_o.a, Q_m.a) THEN "\\int_{Q^*}^{Q^m}MSB - MSC\\,dQ"
    ELSE "\\int_{Q^m}^{Q^*}MSC - MSB\\,dQ"

ExternalitiesCalcs ==
    <<"demand", "P_d", "supply", "P_s", "MEB", "MSB", "MEC", "MSC",
      "market_equilibrium", "P_market", "Q_market",
      "socially_optimal_equilibrium", "P_optimal", "Q_optimal", "deadweight_loss">>

ExternalitiesOutputs ==
    <<"P_d_text", "P_s_text", "marginal_external_benefit_text",
      "marginal_social_benefit_text", "marginal_external_cost_text",
      "marginal_social_cost_text", "market_equilibrium_text",
      "socially_optimal_equilibrium_text", "deadweight_loss_text", "externalities">>

\* the plot once the four coordinates and the two social curves are read:
\* the private curves are drawn when the external part is not zero
externalities_plot(env, v) ==
    Then(ReadAll(env, <<"MEB">>), LAMBDA meb :
    Then(ReadAll(env, IF is_zero(meb[1]) THEN <<"MEC">> ELSE <<"P_d", "MEC">>), LAMBDA r :
    Then(ReadAll(env, IF is_zero(r[Len(r)]) THEN <<>> ELSE <<"P_s">>), LAMBDA mpc :
        Done(Ok([curves |-> <<v[5], v[6]>>
                    \o (IF is_zero(meb[1]) THEN <<>> ELSE <<r[1]>>) \o mpc,
                 Q_lim |-> float(Num(RMul(RInt(2), max(v[1], v[3]).a))),
                 optimal |-> <<float(v[3]), float(v[4])>>,
                 market |-> IF is_zero(meb[1]) /\ is_zero(r[Len(r)]) THEN <<>>
                            ELSE <<float(v[1]), float(v[2])>>,
                 dwl |-> <<float(v[1]), float(v[3])>>])))))

\* the body of each calculator and render function of externalities_server
\* and of the demand_supply_server it calls
ExternalitiesExec(n, env) ==
    CASE n = "demand" ->
            Then(ReadAll(env, <<"input.Q_d">>), LAMBDA v : Done(demand(v[1])))
      [] n = "P_d" ->
            Then(ReadAll(env, <<"demand">>), LAMBDA v : Done(TheOnly(solve_P(v[1]))))
      [] n = "supply" ->
            Then(ReadAll(env, <<"input.Q_s">>), LAMBDA v : Done(supply(v[1])))
      [] n = "P_s" ->
            Then(ReadAll(env, <<"supply">>), LAMBDA v : Done(TheOnly(solve_P(v[1]))))
      [] n = "MEB" ->
            Then(ReadAll(env, <<"input.marginal_external_benefit">>),
                 LAMBDA v : Done(MEB(v[1])))
      [] n = "MSB" ->
            Then(ReadAll(env, <<"P_d", "MEB">>), LAMBDA v : Done(Ok(add(v[1], v[2]))))
      [] n = "MEC" ->
            Then(ReadAll(env, <<"input.marginal_external_cost">>),
                 LAMBDA v : Done(MEC(v[1])))
      [] n = "MSC" ->
            Then(ReadAll(env, <<"P_s", "MEC">>), LAMBDA v : Done(Ok(add(v[1], v[2]))))
      [] n = "market_equilibrium" ->
            Then(ReadAll(env, <<"demand", "supply">>),
                 LAMBDA v : Done(TheOnly(solve_P_Q(v[1], v[2]))))
      [] n = "P_market" ->
            Then(ReadAll(env, <<"market_equilibrium">>), LAMBDA v : Done(Item(v[1], "P")))
      [] n = "Q_market" ->
            Then(ReadAll(env, <<"market_equilibrium">>), LAMBDA v : Done(Item(v[1], "Q")))
      [] n = "socially_optimal_equilibrium" ->
            Then(ReadAll(env, <<"MSB", "MSC">>),
                 LAMBDA v : Done(TheOnly(solve_P_Q(P_minus(v[1]), P_minus(v[2])))))
      [] n = "P_optimal" ->
            Then(ReadAll(env, <<"socially_optimal_equilibrium">>),
                 LAMBDA v : Done(Item(v[1], "P")))
      [] n = "Q_optimal" ->
            Then(ReadAll(env, <<"socially_optimal_equilibrium">>),
                 LAMBDA v : Done(Item(v[1], "Q")))
      [] n = "deadweight_loss" ->
            Then(ReadAll(env, <<"MSB", "MSC", "Q_market", "Q_optimal">>),
                 LAMBDA v : Done(Ok(integrate_from_market(v[1], v[2], v[3], v[4]))))
      [] n = "P_d_text" ->
            Then(ReadAll(env, <<"P_d">> \o Settings),
                 LAMBDA v : Done(Ok(Text("P_d", <<v[1]>>, v[2], v[3]))))
      [] n = "P_s_text" ->
            Then(ReadAll(env, <<"P_s">> \o Settings),
                 LAMBDA v : Done(Ok(Text("P_s", <<v[1]>>, v[2], v[3]))))
      [] n = "marginal_external_benefit_text" -> OneExprText(env, "MEB")
      [] n = "marginal_social_benefit_text" -> OneExprText(env, "MSB")
      [] n = "marginal_external_cost_text" -> OneExprText(env, "MEC")
      [] n = "marginal_social_cost_text" -> OneExprText(env, "MSC")
      [] n = "market_equilibrium_text" ->
            Then(ReadAll(env, <<"demand", "supply", "P_market">> \o Settings
                              \o <<"Q_market">>),
                 LAMBDA v : Done(Ok(Text("P^m, Q^m", <<v[1], v[2], v[3], v[6]>>,
                                         v[4], v[5]))))
      [] n = "socially_optimal_equilibrium_text" ->
            Then(ReadAll(env, <<"MSB", "MSC", "P_optimal">> \o Settings
                              \o <<"Q_optimal">>),
                 LAMBDA v : Done(Ok(Text("P^*, Q^*", <<v[1], v[2], v[3], v[6]>>,
                                         v[4], v[5]))))
      [] n = "deadweight_loss_text" ->
            Then(ReadAll(env, <<"Q_optimal", "Q_market", "deadweight_loss">> \o Settings),
                 LAMBDA v : Done(Ok(Text(dwl_formula(v[1], v[2]), <<v[3]>>, v[4], v[5]))))
      [] n = "externalities" ->
            Then(ReadAll(env, <<"Q_market", "P_market", "Q_optimal", "P_optimal",
                                "MSB", "MSC">>),
                 LAMBDA v : externalities_plot(env, v))

\* the texts tried in the four fields of the page
ExternalDemandTexts ==
    { <<Tok("Q"), Tok("="), NumTok(50), Tok("-"), Tok("P"), Tok("/"), NumTok(2)>>,
      <<Tok("Q"), Tok("="), NumTok(10), Tok("-"), Tok("P")>> }
ExternalSupplyTexts ==
    { <<Tok("Q"), Tok("="), Tok("P"), Tok("-"), NumTok(5)>>,
      <<Tok("Q"), Tok("="), Tok("P"), Tok("+"), NumTok(5)>> }
MEBTexts ==
    { <<Tok("Q"), Tok("/"), NumTok(2)>>, <<NumTok(0)>>, <<NumTok(5)>>, <<Tok("Q")>>,
      <<NumTok(5), Tok("+")>> }
MECTexts == { <<NumTok(0)>>, <<NumTok(5)>>, <<NumTok(10)>> }

\* the inputs as externalities_ui and demand_supply_ui create them
ExternalitiesDefaults ==
    [n \in {"input.Q_d", "input.Q_s", "input.marginal_external_benefit",
            "input.marginal_external_cost", "settings.perc", "settings.approx"} |->
        CASE n = "input.Q_d" ->
                <<Tok("Q"), Tok("="), NumTok(50), Tok("-"), Tok("P"), Tok("/"), NumTok(2)>>
          [] n = "input.Q_s" ->
                <<Tok("Q"), Tok("="), Tok("P"), Tok("-"), NumTok(5)>>
          [] n = "input.marginal_external_benefit" -> <<Tok("Q"), Tok("/"), NumTok(2)>>
          [] n = "input.marginal_external_cost" -> <<NumTok(0)>>
          [] n = "settings.perc" -> 15
          [] n = "settings.approx" -> "Hide"]

----------------------------------------------------------------------------
(* oligopoly.py: the payoff module of the price war (max_size = 2) and the *)
(* prisoner's dilemma read from it                                         *)

\* price_war_df: a pair of payoffs in every cell
price_war_df ==
    [index |-> <<"High", "Low">>, columns |-> <<"High", "Low">>,
     data |-> <<<< <<4, 4>>, <<1, 5>> >>, << <<5, 1>>, <<3, 3>> >>>>]

\* the ids of the inputs of payoff_ui; rows and columns count from 0
row_(i) == "input.row_" \o ToString(i)
column_(j) == "input.column_" \o ToString(j)
cell_(i, j, side) == "input.cell_" \o ToString(i) \o ToString(j) \o ToString(side)

\* str(x) as the text of an input field
str(x) == <<NumTok(x)>>

\* every input update_numeric and update_text of the reset effect names,
\* with the value it sends
reset_updates ==
    [n \in {"input.n_row", "input.n_col"}
           \cup {column_(j) : j \in 0..(Len(price_war_df.columns) - 1)}
           \cup {row_(i) : i \in 0..(Len(price_war_df.index) - 1)}
           \cup {cell_(i, j, side) : i \in 0..(Len(price_war_df.index) - 1),
                                     j \in 0..(Len(price_war_df.columns) - 1),
                                     side \in {1, 2}} |->
        CASE n = "input.n_row" -> Len(price_war_df.index)
          [] n = "input.n_col" -> Len(price_war_df.columns)
          [] \E j \in 0..(Len(price_war_df.columns) - 1) : n = column_(j) ->
                price_war_df.columns[(CHOOSE j \in 0..1 : n = column_(j)) + 1]
          [] \E i \in 0..(Len(price_war_df.index) - 1) : n = row_(i) ->
                price_war_df.index[(CHOOSE i \in 0..1 : n = row_(i)) + 1]
          [] OTHER ->
                Let(CHOOSE c \in (0..1) \X (0..1) \X {1, 2} :
                        n = cell_(c[1], c[2], c[3]), LAMBDA c :
                    str(price_war_df.data[c[1] + 1][c[2] + 1][c[3]]))]

\* a reset effect that sends its updates whatever the counter is
reset_unguarded(reset) == reset_updates

\* the effect of payoff_server on input.reset: nothing while the counter is
\* 0, else the updates sent to the browser
reset_effect(reset) == IF reset = 0 THEN <<>> ELSE reset_updates

\* the k-th side read by payoff(), k from 0, column by column
side_column_major(k, n_row, n_col) ==
    [i |-> (k \div 2) % n_row, j |-> k \div (2 * n_row), side |-> (k % 2) + 1]

\* the k-th side read by payoff(), k from 0: row by row, then column by
\* column, the left side before the right
side_read(k, n_row, n_col) ==
    [i |-> k \div (2 * n_col), j |-> (k % (2 * n_col)) \div 2, side |-> (k % 2) + 1]

\* input[cell]() and parse_expr_safer on it: an input that does not exist
\* raises SilentException
parse_cell(env, at) ==
    IF cell_(at.i, at.j, at.side) \notin DOMAIN env.inp THEN Raise("SilentException")
    ELSE parse_expr_safer(env.inp[cell_(at.i, at.j, at.side)], {}, TRUE)

\* the message of the Exception raised for a side that failed
side_message(at) ==
    "on the " \o (IF at.side = 1 THEN "left" ELSE "right") \o " side of row "
        \o ToString(at.i + 1) \o " and column " \o ToString(at.j + 1)

\* payoff(): the table of the parsed pairs under the current labels, or the
\* Exception of the first side that failed
payoff(env) ==
    Then(ReadAll(env, <<"input.n_row", "input.n_col">>), LAMBDA n :
    Let([k \in 0..(2 * n[1] * n[2] - 1) |->
            parse_cell(env, side_read(k, n[1], n[2]))], LAMBDA parsed :
    Let({k \in DOMAIN parsed : ~IsOk(parsed[k])}, LAMBDA bad :
        IF bad # {}
        THEN [res |-> Raise(side_message(side_read(SetMin(bad), n[1], n[2]))),
              reads |-> {Let(side_read(k, n[1], n[2]),
                             LAMBDA at : cell_(at.i, at.j, at.side)) :
                            k \in 0..SetMin(bad)}]
        ELSE Then(ReadAll(env, [i \in 1..n[1] |-> row_(i - 1)]
                               \o [j \in 1..n[2] |-> column_(j - 1)]), LAMBDA l :
                 [res |-> Ok([index |-> SubSeq(l, 1, n[1]),
                              columns |-> SubSeq(l, n[1] + 1, n[1] + n[2]),
                              data |-> [i \in 1..n[1] |-> [j \in 1..n[2] |->
                                  <<parsed[2 * n[2] * (i - 1) + 2 * (j - 1)].val,
                                    parsed[2 * n[2] * (i - 1) + 2 * (j - 1) + 1].val>>]]]),
                  reads |-> {cell_(i, j, side) : i \in 0..(n[1] - 1),
                                                 j \in 0..(n[2] - 1),
                                                 side \in {1, 2}}]))))

\* str.lower() on the labels of the model
str_lower(label) ==
    CASE label = "High" -> "high"
      [] label = "Low" -> "low"
      [] OTHER -> label

\* " ".join(hints)
RECURSIVE join(_)
join(hints) ==
    IF hints = <<>> THEN ""
    ELSE IF Len(hints) = 1 THEN hints[1]
    ELSE hints[1] \o " " \o join(Tail(hints))

\* the hint, when the condition holds
hint(condition, text) == IF condition THEN <<text>> ELSE <<>>

NotADilemma == "This is not a prisoner's dilemma. "

\* a comparison that lets equal payoffs pass
lt(x, y) == RLt(x.a, y.a)

\* x <= y on two payoffs: decided for numbers only
le(x, y) == RLe(x.a, y.a)

\* price_war_error(): None for a prisoner's dilemma, else the message
price_war_error(df) ==
    IF Len(df.columns) # 2 \/ Len(df.index) # 2 THEN Raise("ValueError")
    ELSE
    Let(str_lower(df.columns[1]), LAMBDA c1 :
    Let(str_lower(df.columns[2]), LAMBDA c2 :
    Let(str_lower(df.index[1]), LAMBDA i1 :
    Let(str_lower(df.index[2]), LAMBDA i2 :
    Let([r1 |-> df.data[1][1][1], r2 |-> df.data[1][1][2],
         s1 |-> df.data[1][2][1], t1 |-> df.data[1][2][2],
         t2 |-> df.data[2][1][1], s2 |-> df.data[2][1][2],
         p1 |-> df.data[2][2][1], p2 |-> df.data[2][2][2]], LAMBDA v :
        IF c1 # i1 \/ c2 # i2
        THEN Ok(Some(NotADilemma
                     \o "Player 1 and player 2 should have the same startegies."))
        ELSE
        Let(hint(v.r1 # v.r2,
                 "Player 1 and player 2 should have the same payoff if they both choose "
                    \o c1 \o ".")
            \o hint(v.s1 # v.s2,
                 "Player 1 and player 2 should have the same payoff if they choose "
                    \o c1 \o " but their opponent chooses " \o c2 \o ".")
            \o hint(v.t1 # v.t2,
                 "Player 1 and player 2 should have the same payoff if they choose "
                    \o c2 \o " but their opponent chooses " \o c1 \o ".")
            \o hint(v.p1 # v.p2,
                 "Player 1 and player 2 should have the same payoff if they both choose "
                    \o c2 \o "."), LAMBDA hints :
            IF hints # <<>> THEN Ok(Some(NotADilemma \o join(hints)))
            ELSE IF \E x \in {v.r1, v.s1, v.t1, v.p1} : x.k # "num"
            THEN Raise("TypeError")
            ELSE
            Let(hint(le(v.r1, v.p1),
                     "Mutual cooperation should be superior to mutual defection.")
                \o hint(le(v.t1, v.r1) \/ le(v.p1, v.s1),
                     "Defection should be the dominant strategy for both agents."),
                LAMBDA order :
                IF order # <<>> THEN Ok(Some(NotADilemma \o join(order)))
                ELSE Ok(None))))))))

\* the labels of an axis are all different
is_unique(labels) == \A i, j \in DOMAIN labels : labels[i] = labels[j] => i = j

\* the cells of colors that colors.loc["Low", "Low"] = ... sets
colored(df) ==
    {c \in (DOMAIN df.index) \X (DOMAIN df.columns) :
        df.index[c[1]] = "Low" /\ df.columns[c[2]] = "Low"}

\* the table price_war_ui returns: every payoff typeset, some cells green
Table(df, perc, approx, green) ==
    [index |-> df.index, columns |-> df.columns,
     cells |-> [i \in DOMAIN df.data |-> [j \in DOMAIN df.data[i] |->
                    Text("tuple", df.data[i][j], perc, approx)]],
     green |-> green]

\* the text price_war_text returns
DilemmaText(equilibrium, best) ==
    [kind |-> "dilemma", text |-> "", equilibrium |-> equilibrium, best |-> best]
HintText(text) == [kind |-> "hint", text |-> text, equilibrium |-> "", best |-> ""]

OligopolyCalcs == <<"price_war_payoff", "price_war_error">>
OligopolyOutputs == <<"price_war_ui", "price_war_text">>

\* the body of each calculator and render function of oligopoly_server.
\* The Styler rejects labels that are not unique (set_td_classes), and a
\* colors table that got a row or a column the payoff table has not.
OligopolyExec(n, env) ==
    CASE n = "price_war_payoff" -> payoff(env)
      [] n = "price_war_error" ->
            Then(ReadAll(env, <<"price_war_payoff">>),
                 LAMBDA v : Done(price_war_error(v[1])))
      [] n = "price_war_ui" ->
            Then(ReadAll(env, <<"price_war_payoff">> \o Settings), LAMBDA v :
                IF ~is_unique(v[1].index) \/ ~is_unique(v[1].columns)
                THEN Done(Raise("KeyError"))
                ELSE Then(ReadAll(env, <<"price_war_error">>), LAMBDA err :
                    IF err[1] # None THEN Done(Ok(Table(v[1], v[2], v[3], {})))
                    ELSE IF colored(v[1]) = {} THEN Done(Raise("ValueError"))
                    ELSE Done(Ok(Table(v[1], v[2], v[3], colored(v[1]))))))
      [] n = "price_war_text" ->
            Then(ReadAll(env, <<"price_war_error">>), LAMBDA err :
                IF err[1] # None THEN Done(Ok(HintText(err[1].name)))
                ELSE Then(ReadAll(env, <<"price_war_payoff">>), LAMBDA v :
                    Done(Ok(DilemmaText(str_lower(v[1].columns[1]),
                                        str_lower(v[1].columns[2]))))))

\* the texts, labels and sizes tried in the fields of the payoff table, and
\* the cells edited: the two where the players choose differently
CellTexts == { <<NumTok(2)>>, <<NumTok(3)>>, <<NumTok(3), Tok("+")>> }
EditedCells == { <<0, 1>>, <<1, 0>> }
LabelTexts == {"Low", "low"}
Sizes == {1, 2, 3}

\* the inputs as payoff_ui creates them from price_war_df
OligopolyDefaults ==
    reset_updates @@
    [n \in {"input.reset", "settings.perc", "settings.approx"} |->
        CASE n = "input.reset" -> 0
          [] n = "settings.perc" -> 15
          [] n = "settings.approx" -> "Hide"]

----------------------------------------------------------------------------
(* settings.py *)

\* the calculators settings_server returns, and its effect
SettingsCalcs == <<"settings.style", "settings.approx", "settings.perc">>
SettingsOutputs == <<"settings.update_dark_mode">>

\* the choices of the two selects
Themes == {"Light", "Dark"}

\* str.lower() on the themes
lower(theme) == IF theme = "Dark" THEN "dark" ELSE "light"

\* style()
style(theme) == IF theme # "Dark" THEN "default" ELSE "dark_background"

\* Approx(value): the member of that value, or ValueError
ApproxOf(value) == IF value \in Approx THEN Ok(value) ELSE Raise("ValueError")

\* a precision that stays at the slider's initial value
perc_initial(value) == 15

\* perc()
perc(value) == value

SettingsExec(n, env) ==
    CASE n = "settings.style" ->
            Then(ReadAll(env, <<"settings.input.theme">>), LAMBDA v : Done(Ok(style(v[1]))))
      [] n = "settings.approx" ->
            Then(ReadAll(env, <<"settings.input.approx">>), LAMBDA v : Done(ApproxOf(v[1])))
      [] n = "settings.perc" ->
            Then(ReadAll(env, <<"settings.input.perc">>), LAMBDA v : Done(Ok(perc(v[1]))))
      [] n = "settings.update_dark_mode" ->
            Then(ReadAll(env, <<"settings.input.theme">>), LAMBDA v : Done(Ok(lower(v[1]))))

\* the inputs as settings_ui creates them
SettingsDefaults ==
    [n \in {"settings.input.theme", "settings.input.approx", "settings.input.perc"} |->
        CASE n = "settings.input.theme" -> "Light"
          [] n = "settings.input.approx" -> "Hide"
          [] n = "settings.input.perc" -> 15]

\* a page whose settings parameter is what settings_server returned
WithSettings(pg) == "settings+" \o pg
SettingsPages == {"trade_and_ppf", "taxes_and_subsidies", "monopoly"}

\* the inputs of a page, its settings parameter left out
OwnInputs(defaults) ==
    [n \in DOMAIN defaults \ (Range(SettingsCalcs)) |-> defaults[n]]

----------------------------------------------------------------------------
(* The pages *)

\* the page a page name stands for, without its settings
Base(pg) ==
    CASE pg \in {"trade_and_ppf", WithSettings("trade_and_ppf")} -> "trade_and_ppf"
      [] pg \in {"taxes_and_subsidies", WithSettings("taxes_and_subsidies")} ->
            "taxes_and_subsidies"
      [] pg \in {"monopoly", WithSettings("monopoly")} -> "monopoly"
      [] OTHER -> pg

HasSettings(pg) == pg # Base(pg)

BaseCalcs(pg) ==
    CASE pg = "trade_and_ppf" -> TradeCalcs
      [] pg = "taxes_and_subsidies" -> TaxCalcs
      [] pg = "monopoly" -> MonopolyCalcs
      [] pg = "equilibrium_and_welfare" -> WelfareCalcs
      [] pg = "externalities" -> ExternalitiesCalcs
      [] pg = "oligopoly" -> OligopolyCalcs

BaseOutputs(pg) ==
    CASE pg = "trade_and_ppf" -> TradeOutputs
      [] pg = "taxes_and_subsidies" -> TaxOutputs
      [] pg = "monopoly" -> MonopolyOutputs
      [] pg = "equilibrium_and_welfare" -> WelfareOutputs
      [] pg = "externalities" -> ExternalitiesOutputs
      [] pg = "oligopoly" -> OligopolyOutputs

BaseExec(pg, n, env) ==
    CASE pg = "trade_and_ppf" -> TradeExec(n, env)
      [] pg = "taxes_and_subsidies" -> TaxExec(n, env)
      [] pg = "monopoly" -> MonopolyExec(n, env)
      [] pg = "equilibrium_and_welfare" -> WelfareExec(n, env)
      [] pg = "externalities" -> ExternalitiesExec(n, env)
      [] pg = "oligopoly" -> OligopolyExec(n, env)

BaseDefaults(pg) ==
    CASE pg = "trade_and_ppf" -> TradeDefaults
      [] pg = "taxes_and_subsidies" -> TaxDefaults
      [] pg = "monopoly" -> MonopolyDefaults
      [] pg = "equilibrium_and_welfare" -> WelfareDefaults
      [] pg = "externalities" -> ExternalitiesDefaults
      [] pg = "oligopoly" -> OligopolyDefaults

PageCalcs(pg) ==
    IF HasSettings(pg) THEN SettingsCalcs \o BaseCalcs(Base(pg)) ELSE BaseCalcs(pg)

PageOutputs(pg) ==
    IF HasSettings(pg) THEN SettingsOutputs \o BaseOutputs(Base(pg)) ELSE BaseOutputs(pg)

PageExec(pg, n, env) ==
    IF n \in Range(SettingsCalcs) \cup Range(SettingsOutputs) THEN SettingsExec(n, env)
    ELSE BaseExec(Base(pg), n, env)

PageDefaults(pg) ==
    IF HasSettings(pg) THEN SettingsDefaults @@ OwnInputs(BaseDefaults(Base(pg)))
    ELSE BaseDefaults(pg)

----------------------------------------------------------------------------
(* The flush *)

\* every calculator and output invalidated by every change
StaleAlways(reads, changed) == TRUE

\* no calculator or output invalidated by any change
StaleNever(reads, changed) == FALSE

\* a calculator or output is invalidated when something it read changed
Stale(reads, changed) == reads \cap changed # {}

\* the calculator at position i: when it read something changed or
\* invalidated it is invalidated, and gets the result and the reads of
\* running it again
RunCalc(pg, i, st, changed, inpNew) ==
    Let(PageCalcs(pg)[i], LAMBDA n :
        IF ~Stale(st.deps[n], changed \cup st.inval) /\ st.cache[n].tag # "invalid"
        THEN st
        ELSE Let(PageExec(pg, n, Env(st.cache, inpNew)), LAMBDA ex :
                 [cache |-> [st.cache EXCEPT ![n] = ex.res],
                  deps |-> [st.deps EXCEPT ![n] = ex.reads],
                  inval |-> st.inval \cup {n}]))

\* the calculators of positions lo to hi, in calling order
RECURSIVE RunRange(_, _, _, _, _, _)
RunRange(pg, lo, hi, st, changed, inpNew) ==
    IF lo > hi THEN st
    ELSE IF lo = hi THEN RunCalc(pg, lo, st, changed, inpNew)
    ELSE Let(RunRange(pg, lo, (lo + hi) \div 2, st, changed, inpNew), LAMBDA half :
             RunRange(pg, (lo + hi) \div 2 + 1, hi, half, changed, inpNew))

\* the calculators from position i on, in calling order
RunCalcs(pg, i, st, changed, inpNew) ==
    RunRange(pg, i, Len(PageCalcs(pg)), st, changed, inpNew)

\* the invalidated calculators that are called, from the last back to
\* position i: by an output that runs or by a calculator that runs
RECURSIVE CalledCalcs(_, _, _, _, _)
CalledCalcs(pg, i, st, read, called) ==
    IF i = 0 THEN called
    ELSE Let(PageCalcs(pg)[i], LAMBDA n :
        IF n \in read /\ n \in st.inval
        THEN CalledCalcs(pg, i - 1, st, read \cup st.deps[n], called \cup {n})
        ELSE CalledCalcs(pg, i - 1, st, read, called))

\* what an output shows after it ran with result r: a silent exception
\* clears it, a cancelled output keeps what it showed
Display(old, r) ==
    CASE r.tag = "ok" -> Shown("value", "", r.val)
      [] r.tag = "silent" -> Shown("blank", "", "")
      [] r.tag = "cancel" -> old
      [] OTHER -> Shown("error", r.exc, "")

\* the flush after the inputs of changed took their values of inpNew
Flush(pg, c, d, o, changed, inpNew, first) ==
    Let(RunCalcs(pg, 1, [cache |-> c, deps |-> d, inval |-> {}], changed, inpNew),
        LAMBDA st :
    Let({n \in Range(PageOutputs(pg)) :
            first \/ Stale(d[n], changed \cup st.inval)}, LAMBDA outs :
    Let([n \in outs |-> PageExec(pg, n, Env(st.cache, inpNew))], LAMBDA ex :
    Let(CalledCalcs(pg, Len(PageCalcs(pg)), st,
                    UNION {ex[n].reads : n \in outs}, {}), LAMBDA called :
        [cache |-> [n \in DOMAIN c |->
                        IF n \in called THEN st.cache[n]
                        ELSE IF n \in st.inval THEN Invalidated
                        ELSE c[n]],
         deps |-> [n \in DOMAIN d |->
                        IF n \in outs THEN ex[n].reads
                        ELSE IF n \in called THEN st.deps[n]
                        ELSE IF n \in st.inval THEN {}
                        ELSE d[n]],
         out |-> [n \in DOMAIN o |->
                        IF n \in outs THEN Display(o[n], ex[n].res) ELSE o[n]],
         ran |-> called \cup outs]))))

\* a session starts: every output is rendered from the default inputs
Start(pg) ==
    Flush(pg,
          [n \in Range(PageCalcs(pg)) |-> Invalidated],
          [n \in Range(PageCalcs(pg)) \cup Range(PageOutputs(pg)) |-> {}],
          [n \in Range(PageOutputs(pg)) |-> Shown("blank", "", "")],
          {}, PageDefaults(pg), TRUE)

\* what the effects of the page send when a session starts: every effect
\* runs once
Effects(pg, i) ==
    IF Base(pg) = "oligopoly" THEN reset_effect(i["input.reset"]) ELSE <<>>

PageInit(pg) ==
    \E p \in {pg} :
        /\ page = p
        /\ inp = PageDefaults(p)
        /\ \E f \in {Start(p)} :
              /\ cache = f.cache /\ deps = f.deps /\ out = f.out /\ ran = f.ran
        /\ edits = 0
        /\ last = ""
        /\ msgs = Effects(p, inp)
        /\ LatexIdle /\ CallIdle

\* the user sets input name to value, and the session flushes
SetInput(name, value) ==
    /\ name \in DOMAIN inp
    /\ edits < MaxEdits
    /\ edits' = edits + 1
    /\ last' = name
    /\ inp[name] # value
    /\ inp' = [inp EXCEPT ![name] = value]
    /\ \E f \in {Flush(page, cache, deps, out, {name}, inp', FALSE)} :
          /\ cache' = f.cache /\ deps' = f.deps /\ out' = f.out /\ ran' = f.ran
    /\ UNCHANGED <<page, msgs, la_vars, ps_vars>>

\* the user presses the reset button: the counter goes up, the session
\* flushes and the effect on input.reset runs
PressReset ==
    /\ "input.reset" \in DOMAIN inp
    /\ inp["input.reset"] < MaxResets
    /\ last' = "input.reset"
    /\ inp' = [inp EXCEPT !["input.reset"] = @ + 1]
    /\ \E f \in {Flush(page, cache, deps, out, {"input.reset"}, inp', FALSE)} :
          /\ cache' = f.cache /\ deps' = f.deps /\ out' = f.out /\ ran' = f.ran
    /\ msgs' = reset_effect(inp'["input.reset"])
    /\ UNCHANGED <<page, edits, la_vars, ps_vars>>

\* the browser applies the updates it was sent and sends back the inputs
\* that changed, in one message; the session flushes
ApplyUpdates ==
    /\ DOMAIN msgs # {}
    /\ inp' = [n \in DOMAIN inp |-> IF n \in DOMAIN msgs THEN msgs[n] ELSE inp[n]]
    /\ \E f \in {Flush(page, cache, deps, out,
                       {n \in DOMAIN inp : inp'[n] # inp[n]}, inp', FALSE)} :
          /\ cache' = f.cache /\ deps' = f.deps /\ out' = f.out /\ ran' = f.ran
    /\ msgs' = <<>>
    /\ UNCHANGED <<page, edits, last, la_vars, ps_vars>>

----------------------------------------------------------------------------
(* A session of the oligopoly page *)

\* the user edits one field of the payoff table
EditPayoff(name, value) == edits < MaxPayoffEdits /\ SetInput(name, value)

EditCell ==
    \E at \in EditedCells, side \in {1, 2}, text \in CellTexts :
        EditPayoff(cell_(at[1], at[2], side), text)
EditLabel ==
    \E n \in {row_(0), row_(1), column_(0), column_(1)}, label \in LabelTexts :
        EditPayoff(n, label)
EditSize ==
    \E n \in {"input.n_row", "input.n_col"}, size \in Sizes : EditPayoff(n, size)

OligopolyNext == EditCell \/ EditLabel \/ EditSize \/ PressReset \/ ApplyUpdates

SpecOligopoly == PageInit("oligopoly") /\ [][OligopolyNext]_vars

----------------------------------------------------------------------------
(* A session of a page and the settings dialog.  The precision slider is   *)
(* shown only while the evaluation select is not on Hide.                  *)

EditTheme == \E v \in Themes : SetInput("settings.input.theme", v)
EditApprox == \E v \in Approx : SetInput("settings.input.approx", v)
EditPerc ==
    /\ "settings.input.approx" \in DOMAIN inp
    /\ inp["settings.input.approx"] # "Hide"
    /\ \E v \in 1..MaxPerc : SetInput("settings.input.perc", v)

----------------------------------------------------------------------------
(* A session of the trade_and_ppf page *)

EditPartyA == \E v \in PartyNames : SetInput("input.party_a", v)
EditPartyB == \E v \in PartyNames : SetInput("input.party_b", v)
EditMaxAA == \E v \in MaxTexts : SetInput("input.max_a_a", v)
EditMaxAB == \E v \in MaxTexts : SetInput("input.max_a_b", v)
EditMaxBA == \E v \in MaxTexts : SetInput("input.max_b_a", v)
EditMaxBB == \E v \in MaxTexts : SetInput("input.max_b_b", v)

TradeNext ==
    \/ EditPartyA \/ EditPartyB
    \/ EditMaxAA \/ EditMaxAB \/ EditMaxBA \/ EditMaxBB

SpecTrade == PageInit("trade_and_ppf") /\ [][TradeNext]_vars

----------------------------------------------------------------------------
(* A session of the taxes_and_subsidies page *)

EditQd == \E v \in DemandTexts : SetInput("input.Q_d", v)
EditQs == \E v \in SupplyTexts : SetInput("input.Q_s", v)
EditTc == \E v \in TaxTexts : SetInput("input.tc", v)
EditTp == \E v \in TaxTexts : SetInput("input.tp", v)

TaxNext == EditQd \/ EditQs \/ EditTc \/ EditTp

SpecTax == PageInit("taxes_and_subsidies") /\ [][TaxNext]_vars

----------------------------------------------------------------------------
(* A session of the monopoly page *)

EditDemand == \E v \in MonopolyDemandTexts : SetInput("input.demand", v)
EditTotalCost == \E v \in TotalCostTexts : SetInput("input.total_cost", v)

MonopolyNext == EditDemand \/ EditTotalCost

SpecMonopoly == PageInit("monopoly") /\ [][MonopolyNext]_vars

----------------------------------------------------------------------------
(* A session of the equilibrium_and_welfare page *)

EditEwQd == \E v \in WelfareDemandTexts : SetInput("input.ew_Q_d", v)
EditEwQs == \E v \in WelfareSupplyTexts : SetInput("input.ew_Q_s", v)

WelfareNext == EditEwQd \/ EditEwQs

SpecWelfare == PageInit("equilibrium_and_welfare") /\ [][WelfareNext]_vars

----------------------------------------------------------------------------
(* A session of the externalities page *)

EditExternalQd == \E v \in ExternalDemandTexts : SetInput("input.Q_d", v)
EditExternalQs == \E v \in ExternalSupplyTexts : SetInput("input.Q_s", v)
EditMEB == \E v \in MEBTexts : SetInput("input.marginal_external_benefit", v)
EditMEC == \E v \in MECTexts : SetInput("input.marginal_external_cost", v)

ExternalitiesNext == EditExternalQd \/ EditExternalQs \/ EditMEB \/ EditMEC

SpecExternalities == PageInit("externalities") /\ [][ExternalitiesNext]_vars

----------------------------------------------------------------------------
(* Sessions that change the settings and one field of the page *)

SettingsInit == \E pg \in SettingsPages : PageInit(WithSettings(pg))

SettingsNext ==
    \/ EditTheme \/ EditApprox \/ EditPerc
    \/ EditMaxAA \/ EditTc \/ EditTotalCost

SpecSettings == SettingsInit /\ [][SettingsNext]_vars

\* output n shows the value its render function returned in the last flush:
\* it ran, and nothing it called raised
Rendered(n) ==
    /\ page # "" /\ n \in ran /\ out[n].status = "value"
    /\ \A d \in deps[n] \cap DOMAIN cache : IsOk(cache[d])

\* the value calculator n holds
Value(n) == cache[n].val

----------------------------------------------------------------------------
(* C3: comp_adv names, for each good, the party whose opportunity cost of
   producing it is strictly lower as the holder of the comparative advantage,
   and Neither when the two opportunity costs are equal. *)
C3_LowerOpportunityCost ==
    Rendered("comp_adv") =>
        out["comp_adv"].shown =
            generate_advantage_text_by_party(
                inp["input.good_a"], inp["input.good_b"], inp["input.party_a"],
                RNeg(Value("cost_a_a").a), RNeg(Value("cost_a_b").a),
                inp["input.party_b"],
                RNeg(Value("cost_b_a").a), RNeg(Value("cost_b_b").a),
                "comparative")

----------------------------------------------------------------------------
(* C4: abs_adv names, for each good, the party whose maximum output is
   strictly greater, Neither when the maxima are equal, and uses the single
   "both" sentence exactly when the same party (or neither) is ahead in both
   goods, also when the two parties have the same name. *)
C4_AbsoluteAdvantageByParty ==
    Rendered("abs_adv") =>
        out["abs_adv"].shown =
            generate_advantage_text_by_party(
                inp["input.good_a"], inp["input.good_b"], inp["input.party_a"],
                Value("max_a_a").a, Value("max_a_b").a,
                inp["input.party_b"],
                Value("max_b_a").a, Value("max_b_b").a,
                "absolute")

----------------------------------------------------------------------------
(* C6 *)

\* the calculators that do not depend on the consumer tax, and those that do
\* not depend on the producer tax
TcFrame ==
    {"demand", "supply", "P_d", "P_s", "equilibrium", "P_optimal", "Q_optimal",
     "producer_tax", "taxed_supply", "taxed_P_s"}
TpFrame == {"consumer_tax", "taxed_demand", "taxed_P_d"}

\* C6 as stated: a change of tc alone runs none of demand, supply, P_d, P_s,
\* equilibrium, P_optimal, Q_optimal, producer_tax, taxed_supply, taxed_P_s,
\* and a change of tp alone none of consumer_tax, taxed_demand, taxed_P_d.
C6_AsStated ==
    /\ last = "input.tc" => ran \cap TcFrame = {}
    /\ last = "input.tp" => ran \cap TpFrame = {}

\* C6 amended: a change of tc alone leaves every calculator among demand,
\* supply, P_d, P_s, equilibrium, P_optimal, Q_optimal, producer_tax,
\* taxed_supply, taxed_P_s that holds a value or an exception as it is,
\* without running it, and a change of tp alone does so for consumer_tax,
\* taxed_demand and taxed_P_d; a calculator that an earlier change
\* invalidated and that nothing called since may run in the flush.
C6_FrameOfHeldValues ==
    [][/\ inp'["input.tc"] # inp["input.tc"] =>
            \A c \in TcFrame : cache[c].tag # "invalid" =>
                c \notin ran' /\ cache'[c] = cache[c] /\ deps'[c] = deps[c]
       /\ inp'["input.tp"] # inp["input.tp"] =>
            \A c \in TpFrame : cache[c].tag # "invalid" =>
                c \notin ran' /\ cache'[c] = cache[c] /\ deps'[c] = deps[c]]_vars

\* a change of tc that ran taxed_demand and its dependents and left the ten
\* calculators alone, each holding its value
C6_Witness ==
    /\ last = "input.tc"
    /\ "taxed_demand" \in ran /\ "Q_taxed" \in ran
    /\ ran \cap TcFrame = {}
    /\ \A c \in TcFrame : IsOk(cache[c])

----------------------------------------------------------------------------
(* The calculators as functions of the inputs *)

\* what every calculator of the page returns or raises in a session that
\* starts with these inputs
PureCache(pg, inputs) ==
    RunCalcs(pg, 1,
             [cache |-> [n \in Range(PageCalcs(pg)) |-> Invalidated],
              deps |-> [n \in Range(PageCalcs(pg)) |-> {}],
              inval |-> {}],
             {}, inputs).cache

\* what the render function of output o returns or raises in such a session
PureOut(pg, inputs, o) ==
    Let(inputs, LAMBDA i :
    Let(PureCache(pg, i), LAMBDA c : PageExec(pg, o, Env(c, i)).res))

\* the number a tax text stands for, if it is one
IsTax(text) == IsOk(consumer_tax(text)) /\ consumer_tax(text).val.k = "num"
TaxOf(text) == consumer_tax(text).val.a

----------------------------------------------------------------------------
(* C8: the outcome depends only on the total tax: for two splits (t_c, t_p)
   and (t_c', t_p') with the same sum and the same curves, Q_taxed,
   P_taxed_consumer, P_taxed_producer, GR and DWL are identical. *)
C8_SplitInvariance ==
    (page = "taxes_and_subsidies" /\ IsTax(inp["input.tc"]) /\ IsTax(inp["input.tp"])) =>
        Let(PureCache(page, inp), LAMBDA here :
            \A tc \in TaxTexts, tp \in TaxTexts :
                (/\ IsTax(tc) /\ IsTax(tp)
                 /\ RAdd(TaxOf(tc), TaxOf(tp))
                        = RAdd(TaxOf(inp["input.tc"]), TaxOf(inp["input.tp"]))) =>
                    Let(PureCache(page, [inp EXCEPT !["input.tc"] = tc,
                                                    !["input.tp"] = tp]),
                        LAMBDA there :
                            \A c \in {"Q_taxed", "P_taxed_consumer",
                                      "P_taxed_producer", "GR", "DWL"} :
                                there[c] = here[c]))

----------------------------------------------------------------------------
(* C9: the government revenue GR = (t_c + t_p) * Q_taxed is the area
   (P_taxed_consumer - P_taxed_producer) * Q_taxed of the rectangle tax_plot
   draws from Q_taxed, P_taxed_producer and P_taxed_consumer; the wedge
   P_d(Q_taxed) - P_s(Q_taxed) is t_c + t_p; and the consumer burden
   P_c^t - P* and the producer burden P* - P_p^t of tax_incidence_text add up
   to t_c + t_p. *)
C9_RevenueIsTheRectangle ==
    page = "taxes_and_subsidies" =>
        /\ (IsOk(cache["GR"]) /\ IsOk(cache["P_taxed_consumer"])
                /\ IsOk(cache["P_taxed_producer"])) =>
              /\ Value("GR").a =
                     RMul(RSub(Value("P_taxed_consumer").a, Value("P_taxed_producer").a),
                          Value("Q_taxed").a)
              /\ RSub(Value("P_taxed_consumer").a, Value("P_taxed_producer").a)
                     = RAdd(Value("consumer_tax").a, Value("producer_tax").a)
              /\ Value("P_taxed_consumer") = subs_Q(Value("P_d"), Value("Q_taxed").a)
              /\ Value("P_taxed_producer") = subs_Q(Value("P_s"), Value("Q_taxed").a)
        /\ Rendered("tax_plot") =>
              out["tax_plot"].shown.GR =
                  [xy |-> <<float(Num(RZero)), float(Value("P_taxed_producer"))>>,
                   width |-> float(Value("Q_taxed")),
                   height |-> float_sub(float(Value("P_taxed_consumer")),
                                        float(Value("P_taxed_producer")))]
        /\ (/\ Rendered("tax_incidence_text")
            /\ out["tax_incidence_text"].shown.template = "The government imposes a tax") =>
              LET exprs == out["tax_incidence_text"].shown.exprs
              IN  /\ exprs[5].a = RSub(Value("P_taxed_consumer").a, Value("P_optimal").a)
                  /\ exprs[6].a = RSub(Value("P_optimal").a, Value("P_taxed_producer").a)
                  /\ RAdd(exprs[5].a, exprs[6].a)
                         = RAdd(Value("consumer_tax").a, Value("producer_tax").a)

\* after a change of the producer tax to 10, the revenue, the plot and the
\* incidence text are there
C9_Witness ==
    /\ page = "taxes_and_subsidies" /\ last = "input.tp"
    /\ IsOk(cache["GR"]) /\ IsOk(cache["P_taxed_consumer"])
    /\ IsOk(cache["P_taxed_producer"])
    /\ Value("producer_tax") = Num(RInt(10)) /\ Value("consumer_tax") = Num(RInt(5))
    /\ Rendered("tax_plot") /\ Rendered("tax_incidence_text")
    /\ Value("GR").a = RMul(RInt(15), Value("Q_taxed").a)

----------------------------------------------------------------------------
(* C10: for a downward-sloping demand curve, an upward-sloping supply curve
   and taxes t_c >= 0 and t_p >= 0, Q_taxed <= Q_optimal with equality
   exactly when t_c + t_p = 0, and DWL >= 0 with DWL = 0 exactly when
   t_c + t_p = 0. *)
C10_TaxLowersQuantity ==
    (/\ page = "taxes_and_subsidies"
     /\ IsOk(cache["P_d"]) /\ IsOk(cache["P_s"])
     /\ RLt(Value("P_d").b, RZero) /\ RLt(RZero, Value("P_s").b)
     /\ IsOk(cache["consumer_tax"]) /\ IsOk(cache["producer_tax"])
     /\ RLe(RZero, Value("consumer_tax").a) /\ RLe(RZero, Value("producer_tax").a)) =>
        LET t == RAdd(Value("consumer_tax").a, Value("producer_tax").a)
        IN  /\ (IsOk(cache["Q_taxed"]) /\ IsOk(cache["Q_optimal"])) =>
                  /\ RLe(Value("Q_taxed").a, Value("Q_optimal").a)
                  /\ Value("Q_taxed").a = Value("Q_optimal").a <=> t = RZero
            /\ IsOk(cache["DWL"]) =>
                  /\ RLe(RZero, Value("DWL").a)
                  /\ Value("DWL").a = RZero <=> t = RZero

\* both taxes set to 0 under the default curves: the same quantity, no loss
C10_Witness ==
    /\ page = "taxes_and_subsidies"
    /\ IsOk(cache["consumer_tax"]) /\ IsOk(cache["producer_tax"])
    /\ Value("consumer_tax") = Num(RZero) /\ Value("producer_tax") = Num(RZero)
    /\ IsOk(cache["P_d"]) /\ RLt(Value("P_d").b, RZero)
    /\ IsOk(cache["P_s"]) /\ RLt(RZero, Value("P_s").b)
    /\ IsOk(cache["DWL"]) /\ Value("DWL") = Num(RZero)
    /\ IsOk(cache["Q_taxed"]) /\ Value("Q_taxed") = Value("Q_optimal")

----------------------------------------------------------------------------
(* C7 *)

\* every calculator that holds a result holds the one the current inputs and
\* settings give
CalculatorsArePure ==
    Let(PureCache(page, inp), LAMBDA pure :
        \A c \in DOMAIN cache : cache[c].tag # "invalid" => cache[c] = pure[c])

----------------------------------------------------------------------------
(* C5 *)

\* what each calculator and output of the monopoly page calls when nothing
\* raises: the calls of the session that starts with the default inputs
MonopolyCalls == Start("monopoly").deps

\* the calculators n depends on, directly or through other calculators
RECURSIVE Upstream(_, _)
Upstream(calls, n) ==
    Let(calls[n] \cap DOMAIN calls, LAMBDA direct :
        direct \cup UNION {Upstream(calls, m) : m \in direct})

\* the calculators that cancel under the current inputs
Cancelled(pure) == {c \in DOMAIN pure : pure[c].tag \in {"cancel", "silent"}}

\* C5: when a calculator cancels, every output that depends on it is
\* cancelled, no calculator that depends on it returns a value, and every
\* output that depends on no cancelled calculator is rendered from the
\* current inputs.
C5_CancelPropagates ==
    page = "monopoly" =>
        Let(PureCache(page, inp), LAMBDA pure :
            Cancelled(pure) # {} =>
                /\ \A o \in DOMAIN out :
                      IF Upstream(MonopolyCalls, o) \cap Cancelled(pure) # {}
                      THEN PureOut(page, inp, o).tag \in {"cancel", "silent"}
                      ELSE /\ out[o].status = "value"
                           /\ IsOk(PureOut(page, inp, o))
                           /\ out[o].shown = PureOut(page, inp, o).val
                /\ \A c \in DOMAIN pure :
                      Upstream(MonopolyCalls, c) \cap Cancelled(pure) # {} =>
                          ~IsOk(pure[c]))

----------------------------------------------------------------------------
(* C11 *)

----------------------------------------------------------------------------
(* C12 *)

\* two displays alike
SameShown(x, y) ==
    /\ x.status = y.status /\ x.exc = y.exc
    /\ x.status = "value" => x.shown = y.shown

\* the outputs of a page that hand settings.perc() and settings.approx() to
\* latex_approx, and the calculators of the page itself
Formatted(pg) ==
    {o \in Range(BaseOutputs(pg)) :
        Start(pg).deps[o] \cap {"settings.perc", "settings.approx"} # {}}
OwnCalcs(pg) == Range(BaseCalcs(Base(pg)))

\* the settings the dialog shows, handed to a page as plain values
ShownSettings(i) ==
    [n \in Range(SettingsCalcs) |->
        CASE n = "settings.style" ->
                IF i["settings.input.theme"] = "Dark" THEN "dark_background" ELSE "default"
          [] n = "settings.approx" -> i["settings.input.approx"]
          [] n = "settings.perc" -> i["settings.input.perc"]]
    @@ [n \in DOMAIN i \ DOMAIN SettingsDefaults |-> i[n]]

\* the style and the approximation mode are valid, and every output that
\* renders is the one the page gives for the settings the dialog shows
SettingsAreCurrent ==
    HasSettings(page) =>
        /\ cache["settings.style"].tag # "invalid" =>
              /\ IsOk(cache["settings.style"])
              /\ cache["settings.style"].val =
                    ShownSettings(inp)["settings.style"]
        /\ cache["settings.approx"].tag # "invalid" =>
              /\ IsOk(cache["settings.approx"])
              /\ cache["settings.approx"].val \in {"Hide", "Replace", "Append"}
              /\ cache["settings.approx"].val = inp["settings.input.approx"]
        /\ \A o \in Range(BaseOutputs(Base(page))) :
              Let(PureOut(Base(page), ShownSettings(inp), o), LAMBDA r :
                  IsOk(r) => SameShown(out[o], Shown("value", "", r.val)))

\* the step is a change of the evaluation select or of the precision slider
FormatEdit ==
    /\ HasSettings(page) /\ edits' = edits + 1
    /\ last' \in {"settings.input.approx", "settings.input.perc"}

\* C12 as stated: the settings are valid and current, and a change of the
\* approximation mode or of the precision changes every formatted output
\* and no calculator value.
C12_AsStated ==
    /\ []SettingsAreCurrent
    /\ [][FormatEdit =>
            /\ \A o \in Formatted(Base(page)) : ~SameShown(out'[o], out[o])
            /\ \A c \in OwnCalcs(page) : cache'[c] = cache[c]]_vars

\* C12 amended: the settings are valid and current, and a change of the
\* approximation mode or of the precision runs every formatted output that
\* renders under the current inputs again, with the new settings, and runs
\* or changes no calculator of the page; what an output shows may stay the
\* same.
C12_SettingsRerenderOutputs ==
    /\ []SettingsAreCurrent
    /\ [][FormatEdit =>
            /\ \A o \in Formatted(Base(page)) :
                  IsOk(PureOut(Base(page), ShownSettings(inp'), o)) => o \in ran'
            /\ \A c \in OwnCalcs(page) : cache'[c] = cache[c] /\ c \notin ran']_vars

\* the default trade page after the evaluation select was set to Append: the
\* table of opportunity costs was rendered again and shows the same cells,
\* 1/2 among them
C12_Witness ==
    /\ page = WithSettings("trade_and_ppf")
    /\ edits = 1 /\ last = "settings.input.approx"
    /\ inp["settings.input.approx"] = "Append"
    /\ cache["settings.approx"] = Ok("Append")
    /\ "oppo_cost" \in ran
    /\ out["oppo_cost"].status = "value"
    /\ out["oppo_cost"].shown.cells[2][2] = "\\(\\frac{1}{2}\\)"
    /\ out["oppo_cost"].shown.cells[1][1] = "\\(1\\)"

----------------------------------------------------------------------------
(* C13 *)

\* C13: for a downward-sloping linear demand and an upward-sloping linear
\* supply with a positive equilibrium, TS is the integral of P_d - P_s from
\* 0 to Q_optimal, TS = CS + PS, and CS and PS are not negative.
C13_TotalSurplusIsTheArea ==
    (/\ page = "equilibrium_and_welfare"
     /\ IsOk(cache["P_d"]) /\ Value("P_d").k = "lin" /\ RLt(Value("P_d").b, RZero)
     /\ IsOk(cache["P_s"]) /\ Value("P_s").k = "lin" /\ RLt(RZero, Value("P_s").b)
     /\ IsOk(cache["Q_optimal"]) /\ Value("Q_optimal").k = "num"
     /\ RLt(RZero, Value("Q_optimal").a))
    => /\ \A c \in {"CS", "PS", "TS"} : IsOk(cache[c]) /\ Value(c).k = "num"
       /\ Value("TS").a = RAdd(Value("CS").a, Value("PS").a)
       /\ Value("TS").a = integrate(RSub(Value("P_d").a, Value("P_s").a),
                                    RSub(Value("P_d").b, Value("P_s").b),
                                    RZero, Value("Q_optimal").a)
       /\ RLe(RZero, Value("CS").a) /\ RLe(RZero, Value("PS").a)

----------------------------------------------------------------------------
(* C14 *)

\* C14: the value deadweight_loss_text shows is the integral it displays as
\* its formula: of MSB - MSC from Q_optimal to Q_market when
\* Q_optimal < Q_market, of MSC - MSB from Q_market to Q_optimal otherwise.
C14_ShownValueIsItsFormula ==
    (page = "externalities" /\ Rendered("deadweight_loss_text")) =>
        Let(out["deadweight_loss_text"].shown, LAMBDA shown :
            IF RLt(Value("Q_optimal").a, Value("Q_market").a)
            THEN /\ shown.template = "\\int_{Q^*}^{Q^m}MSB - MSC\\,dQ"
                 /\ shown.exprs[1].a =
                       integrate(RSub(Value("MSB").a, Value("MSC").a),
                                 RSub(Value("MSB").b, Value("MSC").b),
                                 Value("Q_optimal").a, Value("Q_market").a)
            ELSE /\ shown.template = "\\int_{Q^m}^{Q^*}MSC - MSB\\,dQ"
                 /\ shown.exprs[1].a =
                       integrate(RSub(Value("MSC").a, Value("MSB").a),
                                 RSub(Value("MSC").b, Value("MSB").b),
                                 Value("Q_market").a, Value("Q_optimal").a))

----------------------------------------------------------------------------
(* C15 *)

\* C15: for a downward-sloping linear MSB and an upward-sloping linear MSC
\* with both equilibria, the deadweight loss is not negative, whichever of
\* Q_optimal and Q_market is larger; and when MEB and MEC are both zero,
\* MSB = MPB, MSC = MPC, the two equilibria are equal and the loss is 0.
C15_LossIsNotNegative ==
    page = "externalities" =>
        /\ (/\ IsOk(cache["MSB"]) /\ Value("MSB").k = "lin" /\ Value("MSB").d = RZero
            /\ RLt(Value("MSB").b, RZero)
            /\ IsOk(cache["MSC"]) /\ Value("MSC").k = "lin" /\ Value("MSC").d = RZero
            /\ RLt(RZero, Value("MSC").b)
            /\ IsOk(cache["Q_market"]) /\ IsOk(cache["Q_optimal"]))
           => /\ IsOk(cache["deadweight_loss"])
              /\ Value("deadweight_loss").k = "num"
              /\ RLe(RZero, Value("deadweight_loss").a)
              /\ (Value("deadweight_loss").a = RZero
                    <=> Value("Q_market") = Value("Q_optimal"))
        /\ (/\ IsOk(cache["MEB"]) /\ is_zero(Value("MEB"))
            /\ IsOk(cache["MEC"]) /\ is_zero(Value("MEC"))
            /\ IsOk(cache["P_market"]) /\ IsOk(cache["Q_market"]))
           => /\ IsOk(cache["MSB"]) /\ Value("MSB") = Value("P_d")
              /\ IsOk(cache["MSC"]) /\ Value("MSC") = Value("P_s")
              /\ IsOk(cache["P_optimal"]) /\ Value("P_optimal") = Value("P_market")
              /\ IsOk(cache["Q_optimal"]) /\ Value("Q_optimal") = Value("Q_market")
              /\ IsOk(cache["deadweight_loss"])
              /\ Value("deadweight_loss") = Num(RZero)

\* MEB was set to 0 and then MEC to 5 under the default curves, a negative
\* externality: the optimum 30 is below the market's 95/3 and the loss is 25/6
C15_Witness ==
    /\ page = "externalities" /\ last = "input.marginal_external_cost"
    /\ IsOk(cache["MEC"]) /\ Value("MEC") = Num(RInt(5))
    /\ IsOk(cache["MSB"]) /\ Value("MSB") = Lin(RInt(100), RInt(-2), RZero)
    /\ IsOk(cache["MSC"]) /\ Value("MSC") = Lin(RInt(10), RInt(1), RZero)
    /\ IsOk(cache["Q_market"]) /\ Value("Q_market") = Num(Rat(95, 3))
    /\ IsOk(cache["Q_optimal"]) /\ Value("Q_optimal") = Num(RInt(30))
    /\ IsOk(cache["deadweight_loss"]) /\ Value("deadweight_loss") = Num(Rat(25, 6))

----------------------------------------------------------------------------
(* C16 *)

\* two labels equal when their case is ignored
SameIgnoringCase(x, y) ==
    x = y \/ {x, y} \in {{"High", "high"}, {"Low", "low"}}

\* the payoff of the row player in the cell of row i and column j
RowPayoff(df, i, j) == df.data[i][j][1]

\* the table is a symmetric prisoner's dilemma: the same strategies for
\* both players, symmetric payoffs, and T > R > P > S
SymmetricDilemma(df) ==
    /\ \A k \in 1..2 : SameIgnoringCase(df.columns[k], df.index[k])
    /\ \A i, j \in 1..2 : df.data[i][j][1] = df.data[j][i][2]
    /\ RLt(RowPayoff(df, 1, 1).a, RowPayoff(df, 2, 1).a)
    /\ RLt(RowPayoff(df, 2, 2).a, RowPayoff(df, 1, 1).a)
    /\ RLt(RowPayoff(df, 1, 2).a, RowPayoff(df, 2, 2).a)

\* payoff() returned a table of two rows and two columns of numbers
TwoByTwo ==
    /\ page = "oligopoly" /\ IsOk(cache["price_war_payoff"])
    /\ Len(Value("price_war_payoff").index) = 2
    /\ Len(Value("price_war_payoff").columns) = 2
    /\ \A i, j, side \in 1..2 : Value("price_war_payoff").data[i][j][side].k = "num"

\* C16: on a table of two rows and two columns, price_war_error returns no
\* message exactly when the table is a symmetric prisoner's dilemma: labels
\* of rows and columns equal ignoring case, symmetric payoffs, T > R > P > S.
C16_NoErrorIffDilemma ==
    TwoByTwo =>
        /\ IsOk(cache["price_war_error"])
        /\ (Value("price_war_error") = None
                <=> SymmetricDilemma(Value("price_war_payoff")))

\* both sucker's payoffs were raised to 2: another prisoner's dilemma
\* (5 > 4 > 3 > 2), and no message
C16_Witness ==
    /\ TwoByTwo /\ edits = 2
    /\ RowPayoff(Value("price_war_payoff"), 1, 2) = Num(RInt(2))
    /\ SymmetricDilemma(Value("price_war_payoff"))
    /\ IsOk(cache["price_war_error"]) /\ Value("price_war_error") = None

----------------------------------------------------------------------------
(* C17 *)

\* C17: whenever price_war_error returns no message, price_war_ui colours
\* exactly one cell green, the one where both players choose the second
\* strategy (the equilibrium), and the strategy price_war_text names as the
\* equilibrium is the strategy of that cell.
C17_GreenIsTheEquilibrium ==
    (page = "oligopoly" /\ IsOk(cache["price_war_error"])
        /\ Value("price_war_error") = None) =>
        /\ out["price_war_ui"].status = "value"
        /\ out["price_war_ui"].shown.green = {<<2, 2>>}
        /\ out["price_war_text"].status = "value"
        /\ out["price_war_text"].shown.kind = "dilemma"
        /\ SameIgnoringCase(out["price_war_text"].shown.equilibrium,
                            Value("price_war_payoff").columns[2])

----------------------------------------------------------------------------
(* C18 *)

\* every input of the payoff table holds the value price_war_df gives it
HoldsDefaults(i) ==
    /\ i["input.n_row"] = 2 /\ i["input.n_col"] = 2
    /\ \A k \in 0..1 : /\ i[row_(k)] = price_war_df.index[k + 1]
                       /\ i[column_(k)] = price_war_df.columns[k + 1]
    /\ \A k, j \in 0..1, side \in 1..2 :
          i[cell_(k, j, side)] = <<NumTok(price_war_df.data[k + 1][j + 1][side])>>

\* the table payoff() holds is price_war_df
IsPriceWar(c) ==
    /\ IsOk(c["price_war_payoff"])
    /\ c["price_war_payoff"].val.index = price_war_df.index
    /\ c["price_war_payoff"].val.columns = price_war_df.columns
    /\ \A i, j, side \in 1..2 :
          c["price_war_payoff"].val.data[i][j][side]
              = Num(RInt(price_war_df.data[i][j][side]))

\* C18: updates are on their way to the browser only after the reset button
\* was pressed; once the browser applied them, whatever the edits before,
\* every payoff input holds its default, payoff() is price_war_df and
\* price_war_error returns no message; and applying them when the inputs
\* hold their defaults already changes no input, calculator or output.
C18_ResetRestoresDefaults ==
    [][/\ (DOMAIN msgs' # {}) => inp'["input.reset"] > 0
       /\ (DOMAIN msgs # {} /\ DOMAIN msgs' = {}) =>
             /\ HoldsDefaults(inp')
             /\ IsPriceWar(cache')
             /\ IsOk(cache'["price_war_error"])
             /\ cache'["price_war_error"].val = None
             /\ HoldsDefaults(inp) => UNCHANGED <<inp, cache, out>>]_vars

\* after two edits the button was pressed twice, and the browser applied
\* the updates of the second press
C18_Witness ==
    /\ page = "oligopoly" /\ edits = 2 /\ last = "input.reset"
    /\ inp["input.reset"] = 2 /\ DOMAIN msgs = {}
    /\ HoldsDefaults(inp) /\ IsPriceWar(cache)

----------------------------------------------------------------------------
(* C19 *)

\* the text of a side of a cell is there and parses
Parses(i, j, side) ==
    /\ cell_(i, j, side) \in DOMAIN inp
    /\ IsOk(parse_expr_safer(inp[cell_(i, j, side)], {}, TRUE))

\* side b of a cell is read before side a: an earlier row, or the same row
\* and an earlier column, or the same cell and the left side
Before(b, a) ==
    \/ b[1] < a[1]
    \/ b[1] = a[1] /\ b[2] < a[2]
    \/ b[1] = a[1] /\ b[2] = a[2] /\ b[3] < a[3]

\* the sides of the cells of the table of the current size
Sides ==
    (0..(inp["input.n_row"] - 1)) \X (0..(inp["input.n_col"] - 1)) \X {1, 2}

\* C19: payoff() returns a table of n_row rows and n_col columns whose cell
\* (i, j) is the pair of the parsed texts of cell_{i}{j}1 and cell_{i}{j}2,
\* under the current labels; or, when a side fails, it raises the error
\* that names the first failing side, row by row and the left side first,
\* counting rows and columns from 1.
C19_TableOrFirstFailure ==
    page = "oligopoly" =>
        IF \A a \in Sides : Parses(a[1], a[2], a[3])
        THEN /\ IsOk(cache["price_war_payoff"])
             /\ Value("price_war_payoff").index
                    = [i \in 1..inp["input.n_row"] |-> inp[row_(i - 1)]]
             /\ Value("price_war_payoff").columns
                    = [j \in 1..inp["input.n_col"] |-> inp[column_(j - 1)]]
             /\ DOMAIN Value("price_war_payoff").data = 1..inp["input.n_row"]
             /\ \A i \in 1..inp["input.n_row"] :
                  /\ DOMAIN Value("price_war_payoff").data[i] = 1..inp["input.n_col"]
                  /\ \A j \in 1..inp["input.n_col"], side \in {1, 2} :
                        Ok(Value("price_war_payoff").data[i][j][side])
                            = parse_expr_safer(inp[cell_(i - 1, j - 1, side)], {}, TRUE)
        ELSE \E a \in Sides :
                /\ ~Parses(a[1], a[2], a[3])
                /\ \A b \in Sides : Before(b, a) => Parses(b[1], b[2], b[3])
                /\ cache["price_war_payoff"].tag = "error"
                /\ cache["price_war_payoff"].exc =
                      "on the " \o (IF a[3] = 1 THEN "left" ELSE "right")
                        \o " side of row " \o ToString(a[1] + 1)
                        \o " and column " \o ToString(a[2] + 1)

\* two sides fail, the right of row 1 and column 2 and the left of row 2
\* and column 1: the error names the first
C19_Witness ==
    /\ page = "oligopoly" /\ inp["input.n_row"] = 2 /\ inp["input.n_col"] = 2
    /\ ~Parses(0, 1, 2) /\ ~Parses(1, 0, 1)
    /\ cache["price_war_payoff"].tag = "error"
    /\ cache["price_war_payoff"].exc = "on the right side of row 1 and column 2"

----------------------------------------------------------------------------
(* C20 *)

\* the joint frontier ppf drew, as points (good b, good a)
Joint == out["ppf"].shown.lines[3].points

\* the opportunity cost of a unit of a good to a party that can make at
\* most own of it and at most other of the other good
OpportunityCost(own, other) == RDiv(other.a, own.a)

\* twice the signed area between point p and the line from e1 to e2: not
\* negative when p is on the line or on the side away from the origin
Above(p, e1, e2) ==
    RSub(RAdd(RMul(p[1], e1[2]), RMul(p[2], e2[1])), RMul(e1[2], e2[1]))

\* C20: the joint frontier runs from (0, max_a_a + max_b_a) through a kink
\* to (max_a_b + max_b_b, 0); at the kink each party makes only the good in
\* which its opportunity cost is the lower; the kink is on or above the
\* straight line between the end points, on it when the opportunity costs
\* are equal; and the dashed lines are drawn exactly when the costs differ.
C20_JointFrontierIsConcave ==
    (page = "trade_and_ppf" /\ Rendered("ppf")) =>
        Let([aa |-> Value("max_a_a"), ab |-> Value("max_a_b"),
             ba |-> Value("max_b_a"), bb |-> Value("max_b_b")], LAMBDA m :
            /\ Len(Joint) = 3
            /\ Joint[1] = <<RZero, RAdd(m.aa.a, m.ba.a)>>
            /\ Joint[3] = <<RAdd(m.ab.a, m.bb.a), RZero>>
            /\ (/\ RLt(OpportunityCost(m.aa, m.ab), OpportunityCost(m.ba, m.bb))
                /\ RLt(OpportunityCost(m.bb, m.ba), OpportunityCost(m.ab, m.aa)))
                  => Joint[2] = <<m.bb.a, m.aa.a>>
            /\ (/\ RLt(OpportunityCost(m.ba, m.bb), OpportunityCost(m.aa, m.ab))
                /\ RLt(OpportunityCost(m.ab, m.aa), OpportunityCost(m.bb, m.ba)))
                  => Joint[2] = <<m.ab.a, m.ba.a>>
            /\ RLe(RZero, Above(Joint[2], Joint[1], Joint[3]))
            /\ OpportunityCost(m.aa, m.ab) = OpportunityCost(m.ba, m.bb)
                  => Above(Joint[2], Joint[1], Joint[3]) = RZero
            /\ (out["ppf"].shown.dashed # {}
                  <=> OpportunityCost(m.aa, m.ab) # OpportunityCost(m.ba, m.bb)))

\* the capacity of the first party for the first good was lowered to 2:
\* now the second party makes that good at the lower cost, and the kink is
\* where it makes 2 of it while the first party makes 8 of the other good
C20_Witness ==
    /\ page = "trade_and_ppf" /\ Rendered("ppf") /\ last = "input.max_a_a"
    /\ Value("max_a_a") = Num(RInt(2)) /\ Value("max_a_b") = Num(RInt(8))
    /\ Value("max_b_a") = Num(RInt(2)) /\ Value("max_b_b") = Num(RInt(4))
    /\ Joint = <<<<RZero, RInt(4)>>, <<RInt(8), RInt(2)>>, <<RInt(12), RZero>>>>
    /\ out["ppf"].shown.dashed # {}

====
